---- MODULE Spec2Model ----
(***************************************************************************)
(* A model of the Leggi freight-report ETL scripts:                        *)
(*   scripts/enrich_with_distance.py  (geo enrichment, the two caches)     *)
(*   scripts/normalize_tsv.py         (4-column Tabula normaliser)         *)
(*   scripts/merge_enriched.py        (master table and per-year tables)   *)
(*                                                                         *)
(* Conventions.  An optional value (Python None / NaN) is a sequence of    *)
(* length 0 or 1: <<>> is None, <<v>> is the value v.  Distances are kept  *)
(* in tenths of a kilometre so that the factor 1.2 stays an integer.       *)
(***************************************************************************)
EXTENDS Integers, Sequences, FiniteSets, TLC

VARIABLES
    \* ---- enrich_with_distance.py ----
    ORS_API_KEY,   \* TRUE iff the environment variable holds a non-empty key
    LOC_CACHE,     \* locations.csv on disk: a sequence of location rows
    DIST_CACHE,    \* distances.csv on disk: a sequence of distance rows
    loc_cache,     \* enrich_file's in-memory location cache
    dist_cache,    \* enrich_file's in-memory distance cache
    pc,            \* position of the enrichment process
    run,           \* number of the current process (1 = first start)
    nFiles,        \* number of raw TSV files main() finds
    fileNo,        \* index of the file enrich_file is working on
    nRows,         \* number of rows of the current file
    rowNo,         \* rows of the current file already handled
    distances,     \* enrich_file's list of distances for the current file
    written,       \* indexes of the files whose *_enriched.tsv was written
    last,          \* what the last pair_distance call did (history)
    resolved,      \* first result of each pair resolved in this run (history)
    failed,        \* norms whose geocoding found nothing in this run (history)
    prior,         \* locations and pairs resolved by earlier, interrupted runs
    \* ---- normalize_tsv.py ----
    normPc,        \* position of normalize_one_file
    nSeen,         \* input rows of the file read so far
    rows,          \* normalize_one_file's list of records
    normLast,      \* the last input row and whether it gave a record (history)
    normOut,       \* the rows of the *_norm.tsv written, None when none is
    \* ---- merge_enriched.py ----
    mergePc,       \* position of merge_enriched's main()
    mergeN,        \* number of *_enriched.tsv files main() finds
    mergeI,        \* files handled by the loading loop so far
    nameIx,        \* place of the last handled file's name in the sorted names
    parts,         \* main()'s list of loaded frames
    master,        \* the rows of the master table written, None when none is
    yearTables,    \* the per-year tables written: year -> rows
    exitCode,      \* the exit status of merge_enriched, None while it runs
    \* ---- the text functions of the three scripts ----
    txtPc,         \* "input" before the call, "done" after it
    txtFn,         \* the function that was called
    txtIn,         \* the argument of the call
    txtOut,        \* what the call returned: <<value>>, None before the call
    \* ---- pdf_to_tsv.py ----
    exPc,          \* position of pdf_to_tsv's main()
    nPdfs,         \* number of PDFs main() finds
    pdfNo,         \* index of the PDF at hand
    nPages,        \* number of pages of the PDF at hand
    pageNo,        \* pages of it already handled
    all_rows,      \* process_pdf's list of records
    page,          \* the last page handled (history)
    pageResult,    \* what extract_page_records did with it (history)
    exWritten,     \* indexes of the PDFs whose TSV was written
    exFailed,      \* indexes of the opened PDFs that main() reported as failed
    exOut,         \* the rows of the last TSV written, None when none is
    \* ---- the three stages run one after the other ----
    pipePc,        \* the stage at hand
    pipeDir,       \* data/processed/pdf_csv: the content of each file in it
    pipeFiles,     \* the files the main() at hand still has to handle
    pipeParts,     \* merge_enriched's list of frames
    pipeMaster,    \* the master table once written: <<rows>>, None before
    pipeExit       \* exit status of merge_enriched, None before it ends

enrichVars == <<ORS_API_KEY, LOC_CACHE, DIST_CACHE, loc_cache, dist_cache, pc,
                run, nFiles, fileNo, nRows, rowNo, distances, written, last,
                resolved, failed, prior>>

normVars == <<normPc, nSeen, rows, normLast, normOut>>

mergeVars == <<mergePc, mergeN, mergeI, nameIx, parts, master, yearTables, exitCode>>

textVars == <<txtPc, txtFn, txtIn, txtOut>>

extractVars == <<exPc, nPdfs, pdfNo, nPages, pageNo, all_rows, page, pageResult,
                 exWritten, exFailed, exOut>>

pipeVars == <<pipePc, pipeDir, pipeFiles, pipeParts, pipeMaster, pipeExit>>

vars == <<enrichVars, normVars, mergeVars, textVars, extractVars, pipeVars>>

\* The frames of the three scripts: each leaves the others' state alone
EnrichOnly == UNCHANGED <<normVars, mergeVars, textVars, extractVars, pipeVars>>
NormalizeOnly == UNCHANGED <<enrichVars, mergeVars, textVars, extractVars, pipeVars>>
MergeOnly == UNCHANGED <<enrichVars, normVars, textVars, extractVars, pipeVars>>
TextOnly == UNCHANGED <<enrichVars, normVars, mergeVars, extractVars, pipeVars>>
ExtractOnly == UNCHANGED <<enrichVars, normVars, mergeVars, textVars, pipeVars>>
PipeOnly == UNCHANGED <<enrichVars, normVars, mergeVars, textVars, extractVars>>

----------------------------------------------------------------------------
(* Bounds of the model *)

MaxFiles == 2
MaxRows == 1
MaxRuns == 2
MaxNormRows == 2
MaxTokens == 3
MaxMergeFiles == 2
MaxMergeRows == 2
MaxWords == 4
MaxPdfs == 2
MaxPages == 1
MaxTableRows == 2
MaxLines == 2

----------------------------------------------------------------------------
(* Optional values *)

None == <<>>
Some(v) == <<v>>
IsNone(x) == x = <<>>

----------------------------------------------------------------------------
(* normalize_loc *)

\* Raw location strings "<city>,<code>"; code "" stands for a string without
\* a trailing ",XX" suffix, city "" for an empty or blank string.
RawLocs ==
    { [city |-> "",         code |-> ""],
      [city |-> "MONTREAL", code |-> "PQ"],
      [city |-> "Montréal", code |-> "qc"],
      [city |-> "TORONTO",  code |-> "ON"] }

\* unidecode(...) followed by .lower(), on the city names of the model
AsciiLower(s) ==
    CASE s = "MONTREAL" -> "montreal"
      [] s = "Montréal" -> "montreal"
      [] s = "TORONTO"  -> "toronto"
      [] OTHER          -> s

Upper(code) ==
    CASE code = "qc" -> "QC"
      [] code = "pq" -> "PQ"
      [] code = "on" -> "ON"
      [] OTHER       -> code

Lower(s) ==
    CASE s = "QC"     -> "qc"
      [] s = "PQ"     -> "pq"
      [] s = "ON"     -> "on"
      [] s = "NY"     -> "ny"
      [] s = "Canada" -> "canada"
      [] s = "USA"    -> "usa"
      [] OTHER        -> s

PROV_STATE_TO_COUNTRY(code) ==
    CASE code \in {"QC", "ON", "PQ", "BC"} -> "Canada"
      [] code \in {"NY", "CA", "TX"}       -> "USA"
      [] OTHER                             -> ""

\* The key is the tuple of the comma-separated parts of the Python string.
normalize_loc(raw) ==
    IF raw.city = "" THEN [norm |-> <<>>, city |-> "", region |-> "", country |-> ""]
    ELSE IF raw.code = ""
    THEN [norm |-> <<AsciiLower(raw.city)>>, city |-> AsciiLower(raw.city),
          region |-> "", country |-> ""]
    ELSE LET code0   == Upper(raw.code)
             code    == IF code0 = "PQ" THEN "QC" ELSE code0
             country == PROV_STATE_TO_COUNTRY(code)
             city    == AsciiLower(raw.city)
         IN [norm    |-> IF country # "" THEN <<city, Lower(code), Lower(country)>>
                                         ELSE <<city, Lower(code)>>,
             city    |-> city,
             region  |-> code,
             country |-> country]

----------------------------------------------------------------------------
(* The remote services, as seen by one request *)

\* Coordinates (lat, lon) of the first result a geocoder holds for a query
GeoPoint(norm) ==
    IF norm[1] = "montreal" THEN <<45, -73>> ELSE <<43, -79>>

\* Outcome of one geocoding request: the request raises (network error), the
\* answer is not ok or holds no result, or it holds a first result.
GeoOutcomes ==
    { [kind |-> "raise"], [kind |-> "none"], [kind |-> "ok"] }

\* Driving distances (tenths of a km) the routing service may answer with
RouteKm10 == { 0, 5410 }

\* Outcome of one routing request
RouteOutcomes ==
    { [kind |-> "raise", km10 |-> 0], [kind |-> "fail", km10 |-> 0] }
    \cup { [kind |-> "ok", km10 |-> d] : d \in RouteKm10 }

\* haversine(a, b) of the haversine package, in km, on the model's points
haversine(a, b) == IF a = b THEN 0 ELSE 504

----------------------------------------------------------------------------
(* load_csv, save_csv *)

\* The rows of df at the indexes in keep, in df's order, from index i on
RECURSIVE RowsAt(_, _, _)
RowsAt(df, keep, i) ==
    IF i > Len(df) THEN <<>>
    ELSE (IF i \in keep THEN <<df[i]>> ELSE <<>>) \o RowsAt(df, keep, i + 1)

\* df.drop_duplicates(subset=...): keeps the first row of each key
DropDuplicatesFirst(df, subset) ==
    RowsAt(df, { i \in 1..Len(df) :
                   \A k \in 1..(i - 1) :
                      \E c \in subset : df[k][c] # df[i][c] }, 1)

\* The subset arguments of enrich_file's two save_csv calls
LocKey == {"norm"}
DistKey == {"origin_norm", "dest_norm"}

\* save_csv(df, path, subset): the rows written to path
save_csv(df, subset) == DropDuplicatesFirst(df, subset)

\* load_csv(path, cols): the file's rows, or an empty frame when it is absent
load_csv(file) == file

----------------------------------------------------------------------------
(* geocode, get_coords, ors_distance_km, pair_distance *)

CountryParam(country_hint) ==
    IF country_hint = "" THEN ""
    ELSE IF country_hint = "Canada" THEN "CA" ELSE "US"

\* geocode(norm, country_hint, session); orsOut and nomOut are the outcomes
\* the two services would give.  Result: the coordinates (or None), whether
\* the request raised, and the requests sent.
geocode(norm, country_hint, orsOut, nomOut) ==
    LET orsReq == [endpoint |-> "ors_geocode", text |-> norm,
                   hint |-> CountryParam(country_hint)]
        nomReq == [endpoint |-> "nominatim", text |-> norm, hint |-> ""]
        pre    == IF ORS_API_KEY THEN <<orsReq>> ELSE <<>>
    IN  IF ORS_API_KEY /\ orsOut.kind = "raise"
        THEN [coords |-> None, raised |-> TRUE, calls |-> <<orsReq>>]
        ELSE IF ORS_API_KEY /\ orsOut.kind = "ok"
        THEN [coords |-> GeoPoint(norm), raised |-> FALSE, calls |-> <<orsReq>>]
        ELSE IF nomOut.kind = "raise"
        THEN [coords |-> None, raised |-> TRUE, calls |-> pre \o <<nomReq>>]
        ELSE IF nomOut.kind = "ok"
        THEN [coords |-> GeoPoint(norm), raised |-> FALSE, calls |-> pre \o <<nomReq>>]
        ELSE [coords |-> None, raised |-> FALSE, calls |-> pre \o <<nomReq>>]

\* get_coords after its cache lookup missed: g is geocode's result
CoordsFromGeocode(location_str, info, cache, g) ==
    IF g.raised
    THEN [coords |-> None, loc_cache |-> cache, raised |-> TRUE,
          calls |-> g.calls, unresolved |-> {info.norm}]
    ELSE IF g.coords # None
    THEN [coords |-> g.coords,
          loc_cache |-> Append(cache, [location |-> location_str,
                                       norm |-> info.norm,
                                       lat |-> g.coords[1], lon |-> g.coords[2],
                                       country |-> info.country]),
          raised |-> FALSE, calls |-> g.calls, unresolved |-> {}]
    ELSE [coords |-> None, loc_cache |-> cache, raised |-> FALSE,
          calls |-> g.calls, unresolved |-> {info.norm}]

\* get_coords once the location is normalised and the cache looked up:
\* row holds the cached rows of the norm
CoordsFromCache(location_str, info, row, cache, orsOut, nomOut) ==
    IF info.norm = <<>>
    THEN [coords |-> None, loc_cache |-> cache, raised |-> FALSE,
          calls |-> <<>>, unresolved |-> {}]
    ELSE IF row # <<>>
    THEN [coords |-> <<row[1].lat, row[1].lon>>, loc_cache |-> cache,
          raised |-> FALSE, calls |-> <<>>, unresolved |-> {}]
    ELSE CoordsFromGeocode(location_str, info, cache,
                           geocode(info.norm, info.country, orsOut, nomOut))

LocLookup(cache, norm) ==
    LET IsNorm(r) == r.norm = norm
    IN  SelectSeq(cache, IsNorm)

\* get_coords(location_str, loc_cache, session): the coordinates (or None),
\* the cache, whether a request raised, the requests sent, and the norm the
\* geocoders were asked for in vain
get_coords(location_str, cache, orsOut, nomOut) ==
    CoordsFromCache(location_str, normalize_loc(location_str),
                    LocLookup(cache, normalize_loc(location_str).norm),
                    cache, orsOut, nomOut)

\* ors_distance_km without its guard on the key: the request is always sent
ors_distance_km_unguarded(a_latlon, b_latlon, routeOut) ==
    LET req == [endpoint |-> "ors_directions", text |-> <<>>, hint |-> ""]
    IN  IF routeOut.kind = "raise"
        THEN [km |-> None, raised |-> TRUE, calls |-> <<req>>]
        ELSE IF routeOut.kind = "ok"
        THEN [km |-> Some(routeOut.km10), raised |-> FALSE, calls |-> <<req>>]
        ELSE [km |-> None, raised |-> FALSE, calls |-> <<req>>]

\* ors_distance_km(a_latlon, b_latlon, session)
ors_distance_km(a_latlon, b_latlon, routeOut) ==
    LET req == [endpoint |-> "ors_directions", text |-> <<>>, hint |-> ""]
    IN  IF ~ORS_API_KEY
        THEN [km |-> None, raised |-> FALSE, calls |-> <<>>]
        ELSE IF routeOut.kind = "raise"
        THEN [km |-> None, raised |-> TRUE, calls |-> <<req>>]
        ELSE IF routeOut.kind = "ok"
        THEN [km |-> Some(routeOut.km10), raised |-> FALSE, calls |-> <<req>>]
        ELSE [km |-> None, raised |-> FALSE, calls |-> <<req>>]

\* The method tag taken from the truth value of the distance ("if dist_km")
\* instead of "is not None": a routed distance of 0 is tagged as a fallback
MethodOfTruthy(dist_km) ==
    IF dist_km # None /\ dist_km[1] # 0 THEN "ors" ELSE "haversine_x1.2"

\* The method tag of a new distance row, from ors_distance_km's result
MethodOf(dist_km) == IF dist_km # None THEN "ors" ELSE "haversine_x1.2"

\* A lookup that takes the pair in either direction
DistLookupUnordered(cache, on, dn) ==
    LET IsPair(r) == \/ r.origin_norm = on /\ r.dest_norm = dn
                     \/ r.origin_norm = dn /\ r.dest_norm = on
    IN  SelectSeq(cache, IsPair)

\* The cached rows pair_distance takes for the pair (on, dn)
DistLookup(cache, on, dn) ==
    LET IsPair(r) == r.origin_norm = on /\ r.dest_norm = dn
    IN  SelectSeq(cache, IsPair)

\* What pair_distance returns when it does nothing
PairBase(on, dn, lc, dc) ==
    [on |-> on, dn |-> dn, dkm |-> None, loc_cache |-> lc, dist_cache |-> dc,
     raised |-> FALSE, hit |-> FALSE, calls |-> <<>>, unresolved |-> {},
     added |-> <<>>]

\* The new distance row and what pair_distance returns with it; km is the
\* routed distance or the fallback
PairAdded(base, o, d, r, km) ==
    [base EXCEPT !.dkm = Some(km), !.loc_cache = d.loc_cache,
                 !.dist_cache =
                    Append(base.dist_cache,
                           [origin_norm |-> base.on, dest_norm |-> base.dn,
                            distance_km |-> km, method |-> MethodOf(r.km)]),
                 !.calls = o.calls \o d.calls \o r.calls,
                 !.added = <<[origin_norm |-> base.on, dest_norm |-> base.dn,
                              distance_km |-> km, method |-> MethodOf(r.km)]>>]

\* pair_distance from the routing call on: r is ors_distance_km's result
PairRouted(base, o, d, r) ==
    IF r.raised
    THEN [base EXCEPT !.raised = TRUE, !.loc_cache = d.loc_cache,
                      !.calls = o.calls \o d.calls \o r.calls]
    ELSE PairAdded(base, o, d, r,
                   IF r.km # None THEN r.km[1]
                   ELSE haversine(o.coords, d.coords) * 12)

\* pair_distance after both get_coords calls; o and d are their results
PairLocated(base, o, d, out) ==
    IF d.raised
    THEN [base EXCEPT !.raised = TRUE, !.calls = o.calls \o d.calls,
                      !.loc_cache = o.loc_cache,
                      !.unresolved = o.unresolved \cup d.unresolved]
    ELSE IF o.coords = None \/ d.coords = None
    THEN [base EXCEPT !.calls = o.calls \o d.calls,
                      !.loc_cache = d.loc_cache,
                      !.unresolved = o.unresolved \cup d.unresolved]
    ELSE PairRouted(base, o, d, ors_distance_km(o.coords, d.coords, out.route))

\* pair_distance after get_coords(origin); o is its result
PairOrigin(base, dest, o, out) ==
    IF o.raised
    THEN [base EXCEPT !.raised = TRUE, !.calls = o.calls,
                      !.unresolved = o.unresolved]
    ELSE PairLocated(base, o,
                     get_coords(dest, o.loc_cache, out.dOrs, out.dNom), out)

\* pair_distance once both names are normalised and the distance cache is
\* looked up: row holds the cached rows of the pair
PairLookedUp(origin, dest, base, row, out) ==
    IF base.on = <<>> \/ base.dn = <<>> THEN base
    ELSE IF row # <<>>
    THEN [base EXCEPT !.dkm = Some(row[1].distance_km), !.hit = TRUE]
    ELSE PairOrigin(base, dest,
                    get_coords(origin, base.loc_cache, out.oOrs, out.oNom), out)

\* pair_distance(origin, dest, loc_cache, dist_cache, session); out holds the
\* outcomes the remote services would give to the requests of this call.
\* Result: the distance (or None), both caches, and for the record whether a
\* request raised, whether the pair was cached, the requests sent, the norms
\* left unresolved and the distance row added.
pair_distance(origin, dest, lc, dc, out) ==
    PairLookedUp(origin, dest,
                 PairBase(normalize_loc(origin).norm, normalize_loc(dest).norm,
                          lc, dc),
                 DistLookup(dc, normalize_loc(origin).norm,
                            normalize_loc(dest).norm),
                 out)

----------------------------------------------------------------------------
(* enrich_file and main of enrich_with_distance.py *)

NoCall ==
    [called |-> FALSE, on |-> <<>>, dn |-> <<>>, dkm |-> None,
     raised |-> FALSE, hit |-> FALSE, calls |-> <<>>, unresolved |-> {},
     route |-> [kind |-> "fail", km10 |-> 0], added |-> <<>>]

CallRecord(res, out) ==
    [called |-> TRUE, on |-> res.on, dn |-> res.dn, dkm |-> res.dkm,
     raised |-> res.raised, hit |-> res.hit, calls |-> res.calls,
     unresolved |-> res.unresolved, route |-> out.route, added |-> res.added]

\* The outcomes the remote services may give to the requests of one call for
\* the row (o, d).  A service that the call cannot reach with these caches
\* (the pair or the location is cached, no key is set, or an earlier request
\* of the call settles the matter) has one outcome, which is never read.
Outcomes(o, d, lc, dc) ==
    LET on == normalize_loc(o).norm
        dn == normalize_loc(d).norm
        pairMiss == ~ \E i \in DOMAIN dc :
                        dc[i].origin_norm = on /\ dc[i].dest_norm = dn
        oMiss == pairMiss /\ ~ \E i \in DOMAIN lc : lc[i].norm = on
        dMiss == pairMiss /\ ~ \E i \in DOMAIN lc : lc[i].norm = dn
        geo(asked) == IF asked THEN GeoOutcomes ELSE {[kind |-> "none"]}
        unread(x, S) == x = CHOOSE y \in S : y.kind \in {"none", "fail"}
        oEnds(x) == "raise" \in {x.oOrs.kind, x.oNom.kind}
        dEnds(x) == "raise" \in {x.dOrs.kind, x.dNom.kind}
        oFound(x) == ~oMiss \/ "ok" \in {x.oOrs.kind, x.oNom.kind}
        dFound(x) == ~dMiss \/ "ok" \in {x.dOrs.kind, x.dNom.kind}
    IN  { x \in [oOrs : geo(oMiss /\ ORS_API_KEY), oNom : geo(oMiss),
                 dOrs : geo(dMiss /\ ORS_API_KEY), dNom : geo(dMiss),
                 route : IF pairMiss /\ ORS_API_KEY THEN RouteOutcomes
                         ELSE {[kind |-> "fail", km10 |-> 0]}] :
            /\ x.oOrs.kind # "none" => unread(x.oNom, GeoOutcomes)
            /\ x.dOrs.kind # "none" => unread(x.dNom, GeoOutcomes)
            /\ oEnds(x) => unread(x.dOrs, GeoOutcomes) /\ unread(x.dNom, GeoOutcomes)
            /\ (oEnds(x) \/ dEnds(x) \/ ~oFound(x) \/ ~dFound(x))
                  => unread(x.route, RouteOutcomes) }

Range(f) == { f[i] : i \in DOMAIN f }

\* What the caches hold: the resolved locations and pairs
Known(lc, dc) ==
    [locs  |-> { r.norm : r \in Range(lc) },
     pairs |-> { <<r.origin_norm, r.dest_norm>> : r \in Range(dc) }]

EnrichInit ==
    /\ ORS_API_KEY \in BOOLEAN
    /\ LOC_CACHE = <<>>
    /\ DIST_CACHE = <<>>
    /\ loc_cache = <<>>
    /\ dist_cache = <<>>
    /\ pc = "start"
    /\ run = 1
    /\ nFiles \in 0..MaxFiles
    /\ fileNo = 0
    /\ nRows = 0
    /\ rowNo = 0
    /\ distances = <<>>
    /\ written = {}
    /\ last = NoCall
    /\ resolved = {}
    /\ failed = {}
    /\ prior = [locs |-> {}, pairs |-> {}]

\* main(): the sorted raw files; nothing to do when there is none
Main ==
    /\ pc = "start"
    /\ IF nFiles = 0
       THEN pc' = "done" /\ fileNo' = fileNo
       ELSE pc' = "file" /\ fileNo' = 1
    /\ UNCHANGED <<ORS_API_KEY, LOC_CACHE, DIST_CACHE, loc_cache, dist_cache,
                   run, nFiles, nRows, rowNo, distances, written, last,
                   resolved, failed, prior>>
    /\ EnrichOnly

\* enrich_file, up to the row loop: reads the TSV and loads both caches.  A
\* file that lacks a required column raises ValueError, which neither
\* enrich_file nor main() catches: the process ends ("invalid").
StartFile ==
    /\ pc = "file"
    /\ \E missing \in BOOLEAN, n \in 0..MaxRows :
         IF missing
         THEN /\ pc' = "invalid"
              /\ UNCHANGED <<nRows, loc_cache, dist_cache, rowNo, distances>>
         ELSE /\ nRows' = n
              /\ loc_cache' = load_csv(LOC_CACHE)
              /\ dist_cache' = load_csv(DIST_CACHE)
              /\ rowNo' = 0
              /\ distances' = <<>>
              /\ pc' = "rows"
    /\ UNCHANGED <<ORS_API_KEY, LOC_CACHE, DIST_CACHE, run, nFiles, fileNo,
                   written, last, resolved, failed, prior>>
    /\ EnrichOnly

\* The row loop's body for a row whose origin or destination is empty
SkipRow ==
    /\ distances' = Append(distances, None)
    /\ rowNo' = rowNo + 1
    /\ last' = NoCall
    /\ UNCHANGED <<loc_cache, dist_cache, pc, resolved, failed, prior>>

\* The row loop's body around pair_distance; res is what the call returns,
\* or what it had done when a request raised, which ends the process
RowResult(res, out) ==
    IF res.raised
    THEN /\ pc' = "aborted"
         /\ last' = CallRecord(res, out)
         /\ prior' = [locs  |-> prior.locs
                                  \cup Known(res.loc_cache, res.dist_cache).locs,
                      pairs |-> prior.pairs
                                  \cup Known(res.loc_cache, res.dist_cache).pairs]
         /\ loc_cache' = <<>>
         /\ dist_cache' = <<>>
         /\ UNCHANGED <<distances, rowNo, resolved, failed>>
    ELSE /\ loc_cache' = res.loc_cache
         /\ dist_cache' = res.dist_cache
         /\ distances' = Append(distances, res.dkm)
         /\ rowNo' = rowNo + 1
         /\ last' = CallRecord(res, out)
         /\ resolved' =
              IF \E r \in resolved : r.on = res.on /\ r.dn = res.dn
              THEN resolved
              ELSE resolved \cup {[on |-> res.on, dn |-> res.dn, dkm |-> res.dkm]}
         /\ failed' = failed \cup res.unresolved
         /\ UNCHANGED <<pc, prior>>

\* One iteration of enrich_file's row loop, on a row with origin o and
\* destination d
ProcessRow ==
    /\ pc = "rows"
    /\ rowNo < nRows
    /\ \E o \in RawLocs, d \in RawLocs :
         IF o.city = "" \/ d.city = ""
         THEN SkipRow
         ELSE \E out \in Outcomes(o, d, loc_cache, dist_cache) :
                 RowResult(pair_distance(o, d, loc_cache, dist_cache, out), out)
    /\ UNCHANGED <<ORS_API_KEY, LOC_CACHE, DIST_CACHE, run, nFiles, fileNo,
                   nRows, written>>
    /\ EnrichOnly

\* enrich_file, after the row loop: saves both caches and writes the
\* enriched file; main() then goes on to the next file.
FinishFile ==
    /\ pc = "rows"
    /\ rowNo = nRows
    /\ LOC_CACHE' = save_csv(loc_cache, LocKey)
    /\ DIST_CACHE' = save_csv(dist_cache, DistKey)
    /\ written' = written \cup {fileNo}
    /\ loc_cache' = <<>>
    /\ dist_cache' = <<>>
    /\ distances' = <<>>
    /\ last' = NoCall
    /\ IF fileNo = nFiles
       THEN pc' = "done" /\ fileNo' = fileNo
       ELSE pc' = "file" /\ fileNo' = fileNo + 1
    /\ UNCHANGED <<ORS_API_KEY, run, nFiles, nRows, rowNo, resolved, failed,
                   prior>>
    /\ EnrichOnly

\* The process is killed from outside: what it held in memory is lost
Kill ==
    /\ pc \in {"file", "rows"}
    /\ pc' = "killed"
    /\ prior' = LET known == IF pc = "rows" THEN Known(loc_cache, dist_cache)
                             ELSE Known(LOC_CACHE, DIST_CACHE)
                IN  [locs  |-> prior.locs \cup known.locs,
                     pairs |-> prior.pairs \cup known.pairs]
    /\ loc_cache' = <<>>
    /\ dist_cache' = <<>>
    /\ UNCHANGED <<ORS_API_KEY, LOC_CACHE, DIST_CACHE, run, nFiles, fileNo,
                   nRows, rowNo, distances, written, last, resolved, failed>>
    /\ EnrichOnly

\* The batch is started again: a new process, the same files, the caches
\* as the files on disk hold them
Restart ==
    /\ pc \in {"killed", "aborted"}
    /\ run < MaxRuns
    /\ run' = run + 1
    /\ ORS_API_KEY' \in BOOLEAN
    /\ pc' = "start"
    /\ fileNo' = 0
    /\ nRows' = 0
    /\ rowNo' = 0
    /\ distances' = <<>>
    /\ last' = NoCall
    /\ resolved' = {}
    /\ failed' = {}
    /\ UNCHANGED <<LOC_CACHE, DIST_CACHE, loc_cache, dist_cache, nFiles,
                   written, prior>>
    /\ EnrichOnly

EnrichNext ==
    \/ Main
    \/ StartFile
    \/ ProcessRow
    \/ FinishFile
    \/ Kill
    \/ Restart

\* The enrichment process has not been started
EnrichIdle ==
    /\ ORS_API_KEY = FALSE
    /\ LOC_CACHE = <<>>
    /\ DIST_CACHE = <<>>
    /\ loc_cache = <<>>
    /\ dist_cache = <<>>
    /\ pc = "idle"
    /\ run = 0
    /\ nFiles = 0
    /\ fileNo = 0
    /\ nRows = 0
    /\ rowNo = 0
    /\ distances = <<>>
    /\ written = {}
    /\ last = NoCall
    /\ resolved = {}
    /\ failed = {}
    /\ prior = [locs |-> {}, pairs |-> {}]

----------------------------------------------------------------------------
(* Properties of the enrichment run *)

\* A step in which enrich_file called pair_distance for a row
CallStep == pc = "rows" /\ last'.called /\ (rowNo' # rowNo \/ pc' = "aborted")

\* A step in which that call returned
ReturnStep == CallStep /\ ~last'.raised

GeoEndpoints == {"ors_geocode", "nominatim"}

\* The norms a call sent a geocoding request for
GeoAsked(call) ==
    { call.calls[i].text :
        i \in { j \in DOMAIN call.calls : call.calls[j].endpoint \in GeoEndpoints } }

\* C1: within one run, resolving a pair that pair_distance resolved before
\* (routed, fallback or unresolved) sends no request and returns the distance
\* of the first resolution.
C1_SecondResolutionIsCacheHit ==
    [][ ReturnStep =>
          \A r \in resolved :
             (r.on = last'.on /\ r.dn = last'.dn)
                => (last'.calls = <<>> /\ last'.dkm = r.dkm) ]_vars

\* C2: a location whose geocoding found nothing stays unresolved for the rest
\* of the run: no later row sends a geocoding request for its norm.
C2_FailedLocationNotRetried ==
    [][ ReturnStep => GeoAsked(last') \cap failed = {} ]_vars

\* C3: a failed geocoding or routing call, a raised request included, never
\* ends the run: the row gets an unknown distance when a location stays
\* unresolved, and a run that ended has written every file.
C3_FailedCallNeverAborts ==
    /\ last.raised => pc # "aborted"
    /\ (pc = "rows" /\ last.called /\ last.unresolved # {})
          => distances[Len(distances)] = None
    /\ pc \in {"done", "aborted"} => written = 1..nFiles

\* C4: after an interruption and a restart, every location and pair resolved
\* before the interruption is a cache hit: no request is sent for it.
C4_ResolvedBeforeInterruptIsHit ==
    [][ ReturnStep =>
          /\ <<last'.on, last'.dn>> \in prior.pairs => last'.calls = <<>>
          /\ GeoAsked(last') \cap prior.locs = {} ]_vars

\* The cached coordinates of a norm
CoordsOf(cache, norm) ==
    LET i == CHOOSE j \in DOMAIN cache : cache[j].norm = norm
    IN  <<cache[i].lat, cache[i].lon>>

RoutingAnswered(call) ==
    /\ \E i \in DOMAIN call.calls : call.calls[i].endpoint = "ors_directions"
    /\ call.route.kind = "ok"

\* C5: a row pair_distance adds to the distance cache is tagged "ors" exactly
\* when the routing request returned a distance, which is then its
\* distance_km; otherwise it is tagged "haversine_x1.2" and holds 1.2 times the
\* great-circle distance of the two resolved coordinates.
C5_MethodTagsRoutingResult ==
    pc = "rows" =>
      \A i \in DOMAIN last.added :
        LET e == last.added[i]
        IN  IF RoutingAnswered(last)
            THEN e.method = "ors" /\ e.distance_km = last.route.km10
            ELSE /\ e.method = "haversine_x1.2"
                 /\ e.distance_km * 10 =
                      haversine(CoordsOf(loc_cache, e.origin_norm),
                                CoordsOf(loc_cache, e.dest_norm)) * 12 * 10

C5_Witness ==
    /\ pc = "rows" /\ ORS_API_KEY
    /\ last.added # <<>>
    /\ last.route.kind = "fail"
    /\ last.added[1].method = "haversine_x1.2"
    /\ last.added[1].distance_km > 0

\* C6: without an API key no request goes to a credentialed endpoint: every
\* geocoding request goes to the public geocoder and every new distance row
\* is tagged "haversine_x1.2".
C6_NoKeyNoCredentialedRequest ==
    ~ORS_API_KEY =>
      /\ \A i \in DOMAIN last.calls : last.calls[i].endpoint = "nominatim"
      /\ \A i \in DOMAIN last.added : last.added[i].method = "haversine_x1.2"

C6_Witness ==
    /\ ~ORS_API_KEY
    /\ Len(last.calls) = 2
    /\ last.added # <<>>

NoTwoRowsWithKey(file, subset) ==
    \A i, j \in DOMAIN file :
       (\A c \in subset : file[i][c] = file[j][c]) => i = j

\* C7: the persisted location cache holds at most one row per norm and the
\* persisted distance cache at most one row per ordered pair; a pair and its
\* reverse are distinct keys: a cache hit returns the row of the ordered pair.
C7_OneRowPerKeyOrderedPairs ==
    /\ NoTwoRowsWithKey(LOC_CACHE, LocKey)
    /\ NoTwoRowsWithKey(DIST_CACHE, DistKey)
    /\ (pc = "rows" /\ last.hit) =>
          \E i \in DOMAIN dist_cache :
             /\ dist_cache[i].origin_norm = last.on
             /\ dist_cache[i].dest_norm = last.dn
             /\ last.dkm = Some(dist_cache[i].distance_km)

C7_Witness ==
    /\ pc = "rows" /\ last.called /\ ~last.hit /\ last.added # <<>>
    /\ LOC_CACHE # <<>> /\ DIST_CACHE # <<>>
    /\ \E i \in DOMAIN DIST_CACHE :
          /\ DIST_CACHE[i].origin_norm = last.dn
          /\ DIST_CACHE[i].dest_norm = last.on
          /\ last.on # last.dn
          /\ DIST_CACHE[i].distance_km # last.added[1].distance_km

\* C14: a file that lacks expected columns is dropped and the batch goes on:
\* the process does not end at such a file before every other file of the
\* batch is enriched and written.
C14_MissingColumnsFileIsDropped ==
    pc = "invalid" => written = (1..nFiles) \ {fileNo}

----------------------------------------------------------------------------
(* normalize_tsv.py: strings are sequences of one-character strings *)

Digits == {"0", "1", "2", "3", "4", "5", "6", "7", "8", "9"}
Spaces == {" "}
IsDigit(c) == c \in Digits
IsSpace(c) == c \in Spaces

\* The pieces the cells of column A are made of in the model
Tokens ==
    { <<"2", "1", "4", "0", "1">>,
      <<"7">>,
      <<"A", "B", "C", "1", "2">>,
      <<" ">>,
      <<"0", "4", "/", "0", "1", "/", "2", "0", "2", "4">> }

RECURSIVE TextsOf(_)
TextsOf(n) ==
    IF n = 0 THEN { <<>> }
    ELSE { t \o tok : t \in TextsOf(n - 1), tok \in Tokens }

\* The texts a cell of column A may hold
ATexts == UNION { TextsOf(n) : n \in 0..MaxTokens }

\* The end of the longest run of characters of class that starts at i
RunEnd(s, i, class) ==
    CHOOSE j \in i..Len(s) :
        /\ \A x \in i..j : s[x] \in class
        /\ j = Len(s) \/ s[j + 1] \notin class

\* \d{2}/\d{2}/\d{4} matches s at position i
DateAt(s, i) ==
    /\ i >= 1 /\ i + 9 <= Len(s)
    /\ \A x \in {i, i + 1, i + 3, i + 4, i + 6, i + 7, i + 8, i + 9} : IsDigit(s[x])
    /\ s[i + 2] = "/" /\ s[i + 5] = "/"

\* re.search(r"(\d{2})/(\d{2})/(\d{4})", s): the leftmost match, or None
DateSearch(s) ==
    LET at == { i \in 1..Len(s) : DateAt(s, i) }
    IN  IF at = {} THEN None
        ELSE LET i == CHOOSE x \in at : \A y \in at : x <= y
             IN  Some([dd |-> SubSeq(s, i, i + 1), mm |-> SubSeq(s, i + 3, i + 4),
                       yyyy |-> SubSeq(s, i + 6, i + 9)])

\* parse_date_ddmmyyyy(s): "YYYY-MM-DD", or "" when nothing matches
parse_date_ddmmyyyy(s) ==
    LET m == DateSearch(s)
    IN  IF m = None THEN <<>>
        ELSE m[1].yyyy \o <<"-">> \o m[1].mm \o <<"-">> \o m[1].dd

\* (\d+)\s+(\d{2}/\d{2}/\d{4}) matches s from position i on.  \d+ and \s+ are
\* greedy; giving a character back never helps, as the next piece would have
\* to start with a digit where a space is needed, or with a space where a
\* digit is needed.
OrderDateAt(s, i) ==
    /\ IsDigit(s[i])
    /\ LET e == RunEnd(s, i, Digits)
       IN  /\ e < Len(s) /\ IsSpace(s[e + 1])
           /\ DateAt(s, RunEnd(s, e + 1, Spaces) + 1)

\* re.search(r"(\d+)\s+(\d{2}/\d{2}/\d{4})", a_txt): the groups of the leftmost
\* match, or None
OrderDateSearch(a_txt) ==
    LET at == { i \in 1..Len(a_txt) : OrderDateAt(a_txt, i) }
    IN  IF at = {} THEN None
        ELSE LET i == CHOOSE x \in at : \A y \in at : x <= y
                 e == RunEnd(a_txt, i, Digits)
                 k == RunEnd(a_txt, e + 1, Spaces)
             IN  Some([order |-> SubSeq(a_txt, i, e),
                       date  |-> SubSeq(a_txt, k + 1, k + 10)])

\* The record normalize_one_file makes of a row (the fields it takes from
\* column A), or None when it skips the row
NormalizeRow(a_txt) ==
    LET m == OrderDateSearch(a_txt)
    IN  IF m = None THEN None
        ELSE Some([order_no    |-> m[1].order,
                   req_pu_date |-> parse_date_ddmmyyyy(m[1].date)])

\* Records of a file that holds the target schema already
SchemaRecords ==
    { [order_no |-> <<"2", "1", "4", "0", "1">>,
       req_pu_date |-> <<"2", "0", "2", "4", "-", "0", "1", "-", "0", "4">>] }

NormInit ==
    /\ normPc = "start"
    /\ nSeen = 0
    /\ rows = <<>>
    /\ normLast = [a_txt |-> <<>>, emitted |-> FALSE]
    /\ normOut = None

NormIdle ==
    /\ normPc = "idle"
    /\ nSeen = 0
    /\ rows = <<>>
    /\ normLast = [a_txt |-> <<>>, emitted |-> FALSE]
    /\ normOut = None

\* normalize_one_file on a file named *_norm.tsv or *_enriched.tsv
NormalizeSkipsName ==
    /\ normPc = "start"
    /\ normPc' = "false"
    /\ UNCHANGED <<nSeen, rows, normLast, normOut>>
    /\ NormalizeOnly

\* normalize_one_file reads a file of four columns
NormalizeRead4 ==
    /\ normPc = "start"
    /\ normPc' = "rows"
    /\ UNCHANGED <<nSeen, rows, normLast, normOut>>
    /\ NormalizeOnly

\* normalize_one_file on a file of another width: the target schema is
\* copied as it is, anything else is refused
NormalizeOtherWidth ==
    /\ normPc = "start"
    /\ \E hasSchema \in BOOLEAN :
         IF hasSchema
         THEN \E r \in SchemaRecords :
                 /\ normOut' = Some(<<r>>)
                 /\ normPc' = "true"
         ELSE /\ normOut' = normOut
              /\ normPc' = "false"
    /\ UNCHANGED <<nSeen, rows, normLast>>
    /\ NormalizeOnly

\* One iteration of the row loop of the four-column case
NormalizeLoop ==
    /\ normPc = "rows"
    /\ nSeen < MaxNormRows
    /\ \E a_txt \in ATexts :
         LET rec == NormalizeRow(a_txt)
         IN  /\ rows' = IF rec = None THEN rows ELSE Append(rows, rec[1])
             /\ normLast' = [a_txt |-> a_txt, emitted |-> rec # None]
    /\ nSeen' = nSeen + 1
    /\ UNCHANGED <<normPc, normOut>>
    /\ NormalizeOnly

\* After the loop: no record, no file; else the *_norm.tsv is written
NormalizeWrite ==
    /\ normPc = "rows"
    /\ IF rows = <<>>
       THEN normPc' = "false" /\ normOut' = normOut
       ELSE normPc' = "true" /\ normOut' = Some(rows)
    /\ UNCHANGED <<nSeen, rows, normLast>>
    /\ NormalizeOnly

NormNext ==
    \/ NormalizeSkipsName
    \/ NormalizeRead4
    \/ NormalizeOtherWidth
    \/ NormalizeLoop
    \/ NormalizeWrite

----------------------------------------------------------------------------
(* Properties of the normaliser *)

\* The leading token of a text: its characters up to the first space
LeadingToken(s) ==
    LET sp == { i \in 1..Len(s) : IsSpace(s[i]) }
    IN  IF sp = {} THEN s
        ELSE SubSeq(s, 1, (CHOOSE x \in sp : \A y \in sp : x <= y) - 1)

\* A digit-only order number of at least 4 digits
IsOrderNo(s) == Len(s) >= 4 /\ \A i \in 1..Len(s) : IsDigit(s[i])

\* C8: a record comes only of a row whose leading token is a digit-only order
\* number of at least 4 digits, and every record of the four-column normaliser
\* has such an order_no.
C8_OnlyDigitOrderNumbers ==
    /\ normLast.emitted => IsOrderNo(LeadingToken(normLast.a_txt))
    /\ \A i \in DOMAIN rows : IsOrderNo(rows[i].order_no)

----------------------------------------------------------------------------
(* The text functions: date normalisation and the fused-field splitters.
   Strings are sequences of one-character strings. *)

Letters ==
    {"A", "B", "C", "D", "E", "F", "G", "H", "I", "J", "K", "L", "M", "N", "O",
     "P", "Q", "R", "S", "T", "U", "V", "W", "X", "Y", "Z",
     "a", "b", "c", "d", "e", "f", "g", "h", "i", "j", "k", "l", "m", "n", "o",
     "p", "q", "r", "s", "t", "u", "v", "w", "x", "y", "z"}

\* The words the arguments are made of in the model
Words ==
    { <<"A", ",", "P", "Q">>,
      <<"B", ",", "O", "N">>,
      <<"2", "2", "5", ".", "0", "0">>,
      <<"1", ",", "2", "5", "0", ".", "0", "0">>,
      <<"C", "A">>,
      <<"0", "4", "/", "0", "1", "/", "2", "0", "2", "4">> }

\* " ".join(ws)
RECURSIVE JoinWords(_)
JoinWords(ws) ==
    IF ws = <<>> THEN <<>>
    ELSE IF Len(ws) = 1 THEN ws[1]
    ELSE ws[1] \o <<" ">> \o JoinWords(Tail(ws))

\* The arguments: up to MaxWords words with one space between them
Texts ==
    { JoinWords(ws) : ws \in UNION { [1..n -> Words] : n \in 0..MaxWords } }

\* str.strip()
Strip(s) ==
    LET ns == { i \in 1..Len(s) : ~IsSpace(s[i]) }
    IN  IF ns = {} THEN <<>>
        ELSE SubSeq(s, CHOOSE x \in ns : \A y \in ns : x <= y,
                       CHOOSE x \in ns : \A y \in ns : x >= y)

\* pdf_to_tsv.normalize_date(d): re.match anchors the pattern at the start
\* only; a text that does not match is returned as it is
normalize_date(d) ==
    LET s == Strip(d)
    IN  IF DateAt(s, 1)
        THEN SubSeq(s, 7, 10) \o <<"-">> \o SubSeq(s, 4, 5) \o <<"-">> \o SubSeq(s, 1, 2)
        ELSE s

\* enrich_with_distance.parse_date_ddmmyyyy(s): the same code as the
\* normaliser's function of that name
enrich_parse_date_ddmmyyyy(s) ==
    LET m == DateSearch(s)
    IN  IF m = None THEN <<>>
        ELSE m[1].yyyy \o <<"-">> \o m[1].mm \o <<"-">> \o m[1].dd

\* The end of the match of \d+(?:\.\d{1,2})? that starts at the digit t[i]
NumEnd(t, i) ==
    LET e == RunEnd(t, i, Digits)
    IN  IF e + 2 <= Len(t) /\ t[e + 1] = "." /\ IsDigit(t[e + 2])
        THEN IF e + 3 <= Len(t) /\ IsDigit(t[e + 3]) THEN e + 3 ELSE e + 2
        ELSE e

\* list(re.finditer(r"(\d+(?:\.\d{1,2})?)", t))[-1]: the span of the last of
\* the successive matches from pos on, or best when there is none
RECURSIVE LastNumber(_, _, _)
LastNumber(t, pos, best) ==
    IF pos > Len(t) THEN best
    ELSE IF IsDigit(t[pos])
    THEN LastNumber(t, NumEnd(t, pos) + 1, Some(<<pos, NumEnd(t, pos)>>))
    ELSE LastNumber(t, pos + 1, best)

DigitVal(c) ==
    CHOOSE n \in 0..9 :
        <<"0", "1", "2", "3", "4", "5", "6", "7", "8", "9">>[n + 1] = c

RECURSIVE IntOf(_)
IntOf(s) ==
    IF s = <<>> THEN 0
    ELSE IntOf(SubSeq(s, 1, Len(s) - 1)) * 10 + DigitVal(s[Len(s)])

\* to_float(s) of a matched number (digits, then at most a point and one or
\* two digits): Some(hundredths); NaN (None) for a text float() refuses
to_float(s) ==
    LET InFloat(c) == c \in Digits \cup {".", "-"}
        kept == SelectSeq(s, InFloat)
        dots == { i \in 1..Len(kept) : kept[i] = "." }
        p    == CHOOSE i \in dots : TRUE
        frac == SubSeq(kept, p + 1, Len(kept))
    IN  IF kept = <<>> \/ \E i \in 1..Len(kept) : kept[i] = "-" THEN None
        ELSE IF dots = {} THEN Some(IntOf(kept) * 100)
        ELSE IF Cardinality(dots) > 1 \/ Len(frac) > 2 \/ Len(kept) = 1 THEN None
        ELSE Some(IntOf(SubSeq(kept, 1, p - 1)) * 100
                  + (IF Len(frac) = 1 THEN IntOf(frac) * 10 ELSE IntOf(frac)))

\* t[i-2..i] is ,[A-Za-z]{2}
RegionEndsAt(t, i) ==
    i >= 3 /\ i <= Len(t) /\ t[i - 2] = "," /\ t[i - 1] \in Letters /\ t[i] \in Letters

\* re.match(r"^(.*?,[A-Za-z]{2})\s+(.*?,[A-Za-z]{2})$", t): the two groups,
\* stripped, or None.  The first group is the shortest prefix that ends in a
\* region and is followed by white space; the pattern then matches iff t ends
\* in a region that begins after that white space.
CityPair(t) ==
    LET at == { i \in 1..Len(t) :
                  /\ RegionEndsAt(t, i)
                  /\ i + 1 <= Len(t) /\ IsSpace(t[i + 1])
                  /\ RegionEndsAt(t, Len(t)) /\ Len(t) - 2 >= i + 2 }
    IN  IF at = {} THEN None
        ELSE LET i == CHOOSE x \in at : \A y \in at : x <= y
             IN  Some([origin |-> Strip(SubSeq(t, 1, i)),
                       destination |-> Strip(SubSeq(t, i + 1, Len(t)))])

\* The splitter after its strip(): m_rev is the span of the last number
SplitAt(t, m_rev) ==
    LET revenue == IF m_rev = None THEN None
                   ELSE to_float(SubSeq(t, m_rev[1][1], m_rev[1][2]))
        rest    == IF m_rev = None THEN t
                   ELSE Strip(SubSeq(t, 1, m_rev[1][1] - 1))
        m       == CityPair(rest)
    IN  IF m # None
        THEN [origin |-> m[1].origin, destination |-> m[1].destination,
              revenue |-> revenue]
        ELSE [origin |-> <<>>, destination |-> <<>>, revenue |-> revenue]

\* enrich_with_distance.split_origin_destination(text)
split_origin_destination(text) ==
    SplitAt(Strip(text), LastNumber(Strip(text), 1, None))

\* normalize_tsv.split_origin_dest_revenue(text)
split_origin_dest_revenue(text) ==
    SplitAt(Strip(text), LastNumber(Strip(text), 1, None))

TextInit ==
    /\ txtPc = "input"
    /\ txtFn = ""
    /\ txtIn \in Texts
    /\ txtOut = None

TextIdle ==
    /\ txtPc = "idle"
    /\ txtFn = ""
    /\ txtIn = <<>>
    /\ txtOut = None

CallNormalizeDate ==
    /\ txtPc = "input"
    /\ txtFn' = "normalize_date"
    /\ txtOut' = Some(normalize_date(txtIn))
    /\ txtPc' = "done"
    /\ UNCHANGED txtIn
    /\ TextOnly

CallParseDate ==
    /\ txtPc = "input"
    /\ txtFn' = "normalize_tsv.parse_date_ddmmyyyy"
    /\ txtOut' = Some(parse_date_ddmmyyyy(txtIn))
    /\ txtPc' = "done"
    /\ UNCHANGED txtIn
    /\ TextOnly

CallEnrichParseDate ==
    /\ txtPc = "input"
    /\ txtFn' = "enrich_with_distance.parse_date_ddmmyyyy"
    /\ txtOut' = Some(enrich_parse_date_ddmmyyyy(txtIn))
    /\ txtPc' = "done"
    /\ UNCHANGED txtIn
    /\ TextOnly

CallSplitOriginDestination ==
    /\ txtPc = "input"
    /\ txtFn' = "split_origin_destination"
    /\ txtOut' = Some(split_origin_destination(txtIn))
    /\ txtPc' = "done"
    /\ UNCHANGED txtIn
    /\ TextOnly

CallSplitOriginDestRevenue ==
    /\ txtPc = "input"
    /\ txtFn' = "split_origin_dest_revenue"
    /\ txtOut' = Some(split_origin_dest_revenue(txtIn))
    /\ txtPc' = "done"
    /\ UNCHANGED txtIn
    /\ TextOnly

TextNext ==
    \/ CallNormalizeDate
    \/ CallParseDate
    \/ CallEnrichParseDate
    \/ CallSplitOriginDestination
    \/ CallSplitOriginDestRevenue

----------------------------------------------------------------------------
(* Properties of the text functions *)

Cities == { <<"A", ",", "P", "Q">>, <<"B", ",", "O", "N">> }
CAWord == <<"C", "A">>

\* The amounts of the model and their values in hundredths
AmountValue(w) == IF w = <<"2", "2", "5", ".", "0", "0">> THEN 22500 ELSE 125000
Amounts == { <<"2", "2", "5", ".", "0", "0">>, <<"1", ",", "2", "5", "0", ".", "0", "0">> }

\* The texts of the shape "<city>,<region> <city>,<region> <amount>[ CA]" and
\* the three fields each of them stands for
ShapeFields ==
    { [text |-> JoinWords(<<o, d, a>> \o tl), origin |-> o, destination |-> d,
       revenue |-> Some(AmountValue(a))] :
        o \in Cities, d \in Cities, a \in Amounts, tl \in {<<>>, <<CAWord>>} }

\* C15: the splitters return (origin, destination, revenue) for a text of the
\* shape "<city>,<region> <city>,<region> <amount>[ CA]", amounts with a
\* thousands separator included, and leave all three fields empty (origin "",
\* destination "", revenue missing) for any other text.
C15_SplitterShapeOrEmpty ==
    (txtPc = "done"
     /\ txtFn \in {"split_origin_destination", "split_origin_dest_revenue"})
       => IF \E f \in ShapeFields : f.text = txtIn
          THEN \E f \in ShapeFields :
                  /\ f.text = txtIn
                  /\ txtOut[1] = [origin |-> f.origin,
                                  destination |-> f.destination,
                                  revenue |-> f.revenue]
          ELSE txtOut[1] = [origin |-> <<>>, destination |-> <<>>,
                            revenue |-> None]

DateFns ==
    {"normalize_date", "normalize_tsv.parse_date_ddmmyyyy",
     "enrich_with_distance.parse_date_ddmmyyyy"}

\* C16: each date function returns "YYYY-MM-DD" for "DD/MM/YYYY" and the empty
\* string for every text that is not of the form DD/MM/YYYY.
C16_DateOrEmpty ==
    (txtPc = "done" /\ txtFn \in DateFns)
       => IF Len(txtIn) = 10 /\ DateAt(txtIn, 1)
          THEN txtOut[1] = SubSeq(txtIn, 7, 10) \o <<"-">> \o SubSeq(txtIn, 4, 5)
                             \o <<"-">> \o SubSeq(txtIn, 1, 2)
          ELSE txtOut[1] = <<>>

----------------------------------------------------------------------------
(* pdf_to_tsv.py.  A cell of a table row and a line of page text are
   sequences of words, the text between single spaces (collapse_spaces); a
   word is a sequence of one-character strings. *)

UpperLetters ==
    {"A", "B", "C", "D", "E", "F", "G", "H", "I", "J", "K", "L", "M", "N", "O",
     "P", "Q", "R", "S", "T", "U", "V", "W", "X", "Y", "Z"}

\* \w
WordChars == Letters \cup Digits \cup {"_"}

\* The words of the model
wOrder1 == <<"2", "1", "4", "0", "1">>
wOrder2 == <<"2", "1", "4", "0", "2">>
wDate == <<"0", "4", "/", "0", "1", "/", "2", "0", "2", "4">>
wCust == <<"A", "C", "M", "E">>
wCityA == <<"L", "A", "V", "A", "L", ",", "P", "Q">>
wCityB == <<"A", "J", "A", "X", ",", "O", "N">>
wAmt1 == <<"1", "0", "0", ".", "0", "0">>
wAmt2 == <<"8", "0", ".", "0", "0">>
wAmt3 == <<"2", "0", ".", "0", "0">>
wCA == <<"C", "A">>
wReport == <<"R", "e", "p", "o", "r", "t">>

\* \b(\d{5})\b in a word: the leftmost five digits between word boundaries
OrderInWord(w) ==
    LET at == { i \in 1..(Len(w) - 4) :
                  /\ \A x \in i..(i + 4) : IsDigit(w[x])
                  /\ i = 1 \/ w[i - 1] \notin WordChars
                  /\ i + 5 > Len(w) \/ w[i + 5] \notin WordChars }
    IN  IF at = {} THEN None
        ELSE LET i == CHOOSE x \in at : \A y \in at : x <= y
             IN  Some(SubSeq(w, i, i + 4))

\* \b(\d{2}/\d{2}/\d{4})\b in a word
DateInWord(w) ==
    LET at == { i \in 1..Len(w) :
                  /\ DateAt(w, i)
                  /\ i = 1 \/ w[i - 1] \notin WordChars
                  /\ i + 10 > Len(w) \/ w[i + 10] \notin WordChars }
    IN  IF at = {} THEN None
        ELSE LET i == CHOOSE x \in at : \A y \in at : x <= y
             IN  Some(SubSeq(w, i, i + 9))

\* The words of a row in the order of " ".join(row)
RECURSIVE Flatten(_)
Flatten(cells) ==
    IF cells = <<>> THEN <<>> ELSE Head(cells) \o Flatten(Tail(cells))

\* re.search(pattern, joined) for a pattern that lies within a word: the
\* match in the first word that has one
RECURSIVE FirstOrder(_)
FirstOrder(ws) ==
    IF ws = <<>> THEN None
    ELSE IF OrderInWord(Head(ws)) # None THEN OrderInWord(Head(ws))
    ELSE FirstOrder(Tail(ws))

RECURSIVE FirstDate(_)
FirstDate(ws) ==
    IF ws = <<>> THEN None
    ELSE IF DateInWord(Head(ws)) # None THEN DateInWord(Head(ws))
    ELSE FirstDate(Tail(ws))

\* The end of (?:,\d{3})* from position i on (i is the place after the
\* groups matched so far)
RECURSIVE GroupsEnd(_, _)
GroupsEnd(w, i) ==
    IF /\ i + 3 <= Len(w) /\ w[i] = ","
       /\ \A x \in (i + 1)..(i + 3) : IsDigit(w[x])
    THEN GroupsEnd(w, i + 4)
    ELSE i

\* \d{1,3}(?:,\d{3})*\.\d{2} matched at position i of w: the place of its
\* last character, 0 when it does not match there.  Up to three digits are
\* taken, fewer when what follows them is a digit too; then the groups; then
\* the point and two digits must follow.
AmountEnd(w, i) ==
    LET ends == { k \in i..(i + 2) :
                    /\ k <= Len(w)
                    /\ \A x \in i..k : IsDigit(w[x])
                    /\ LET g == GroupsEnd(w, k + 1)
                       IN  /\ g + 2 <= Len(w) /\ w[g] = "."
                           /\ IsDigit(w[g + 1]) /\ IsDigit(w[g + 2]) }
    IN  IF ends = {} THEN 0
        ELSE GroupsEnd(w, (CHOOSE k \in ends : \A y \in ends : k >= y) + 1) + 2

\* re.findall(r"\d{1,3}(?:,\d{3})*\.\d{2}", w) from position i on
RECURSIVE AmountsFrom(_, _)
AmountsFrom(w, i) ==
    IF i > Len(w) THEN <<>>
    ELSE IF AmountEnd(w, i) # 0
    THEN <<SubSeq(w, i, AmountEnd(w, i))>> \o AmountsFrom(w, AmountEnd(w, i) + 1)
    ELSE AmountsFrom(w, i + 1)

\* re.findall(...) in a cell: no match spans a space
RECURSIVE FindAmounts(_)
FindAmounts(cell) ==
    IF cell = <<>> THEN <<>>
    ELSE AmountsFrom(Head(cell), 1) \o FindAmounts(Tail(cell))

\* clean_money(x) of a matched amount, in hundredths
clean_money(x) ==
    LET Kept(c) == IsDigit(c) IN IntOf(SelectSeq(x, Kept))

\* re.search(r",[A-Z]{2}$", cell)
EndsInRegion(cell) ==
    /\ cell # <<>>
    /\ LET w == cell[Len(cell)]
       IN  /\ Len(w) >= 3 /\ w[Len(w) - 2] = ","
           /\ w[Len(w) - 1] \in UpperLetters /\ w[Len(w)] \in UpperLetters

\* first_city_idx(start), 0-based as in the code: -1 when there is none
first_city_idx(cells, start) ==
    LET at == { i \in start..(Len(cells) - 1) : EndsInRegion(cells[i + 1]) }
    IN  IF at = {} THEN 0 - 1 ELSE CHOOSE x \in at : \A y \in at : x <= y

\* The cells before the first cell equal to origin, without those equal to the
\* order number or to the date with its "-" turned into "/"
RECURSIVE CustomerParts(_, _, _, _)
CustomerParts(cells, origin, order, slashed) ==
    IF cells = <<>> \/ Head(cells) = origin THEN <<>>
    ELSE (IF Head(cells) = <<order>> \/ Head(cells) = <<slashed>>
          THEN <<>> ELSE Head(cells))
         \o CustomerParts(Tail(cells), origin, order, slashed)

\* re.sub("-", "/", date)
Slashed(date) == [i \in 1..Len(date) |-> IF date[i] = "-" THEN "/" ELSE date[i]]

\* The amounts of cells[-3:], cell by cell
TailAmounts(cells) ==
    LET n == Len(cells)
        tl == SubSeq(cells, IF n > 3 THEN n - 2 ELSE 1, n)
    IN  Flatten([i \in 1..Len(tl) |-> FindAmounts(tl[i])])

Reverse(sq) == [i \in 1..Len(sq) |-> sq[Len(sq) + 1 - i]]

\* The second scan of map_row_from_table: the cells from right to left, the
\* amounts of each from right to left, appended to nums until there are three
RECURSIVE ScanBack(_, _, _)
ScanBack(cells, k, nums) ==
    IF k = 0 THEN nums
    ELSE LET more == nums \o Reverse(FindAmounts(cells[k]))
         IN  IF Len(more) >= 3 THEN more ELSE ScanBack(cells, k - 1, more)

LastThree(nums) ==
    IF nums = <<>> THEN <<<<"0", ".", "0", "0">>, <<"0", ".", "0", "0">>, <<"0", ".", "0", "0">>>>
    ELSE SubSeq(nums, IF Len(nums) > 3 THEN Len(nums) - 2 ELSE 1, Len(nums))

\* map_row_from_table from line 126 on: cells are the non-empty cells, nums the
\* last three amounts.  Unpacking fewer than three values raises ValueError.
MapCells(cells, order, date, nums) ==
    LET oi == first_city_idx(cells, 0)
        di == IF oi >= 0 THEN first_city_idx(cells, oi + 1) ELSE 0 - 1
        origin == IF oi >= 0 THEN cells[oi + 1] ELSE <<>>
        dest == IF di >= 0 THEN cells[di + 1] ELSE <<>>
        customer == CustomerParts(cells, origin, order, Slashed(date))
    IN  IF Len(nums) # 3 THEN [raised |-> TRUE, rec |-> None]
        ELSE IF customer # <<>> /\ (origin # <<>> \/ dest # <<>>)
        THEN [raised |-> FALSE,
              rec |-> Some([order_no |-> order, req_pu_date |-> date,
                            customer |-> customer, origin |-> origin,
                            destination |-> dest,
                            revenue |-> clean_money(nums[1]),
                            cost |-> clean_money(nums[2]),
                            margin |-> clean_money(nums[3])])]
        ELSE [raised |-> FALSE, rec |-> None]

NonEmptyCells(row) ==
    LET Filled(c) == c # <<>> IN SelectSeq(row, Filled)

\* nums of map_row_from_table (lines 164-179)
RowAmounts(cells) ==
    LastThree(IF Len(TailAmounts(cells)) < 3
              THEN ScanBack(cells, Len(cells), TailAmounts(cells))
              ELSE TailAmounts(cells))

\* map_row_from_table(row): the record or None, or raised
map_row_from_table(row) ==
    IF row = <<>> \/ Len(NonEmptyCells(row)) < 6
       \/ FirstOrder(Flatten(row)) = None \/ FirstDate(Flatten(row)) = None
    THEN [raised |-> FALSE, rec |-> None]
    ELSE MapCells(NonEmptyCells(row), FirstOrder(Flatten(row))[1],
                  normalize_date(FirstDate(Flatten(row))[1]),
                  RowAmounts(NonEmptyCells(row)))

\* [A-Z0-9\'\-\.\s,]: the characters of the origin and dest groups
CityClass == UpperLetters \cup Digits \cup {"'", "-", ".", ",", " "}

\* (?P<order>\d{5})\s+ ends a word: its last five characters are digits
OrderAtEnd(w) ==
    Len(w) >= 5 /\ \A x \in (Len(w) - 4)..Len(w) : IsDigit(w[x])

\* (?P<date>\d{2}/\d{2}/\d{4}) between two \s+ is a whole word
IsDateWord(w) == Len(w) = 10 /\ DateAt(w, 1)

\* [class]+,[A-Z]{2} between two \s+: the words ws[a..b]
IsCityGroup(ws, a, b) ==
    /\ a <= b /\ b <= Len(ws)
    /\ \A k \in a..b : \A x \in 1..Len(ws[k]) : ws[k][x] \in CityClass
    /\ EndsInRegion(<<ws[b]>>)
    /\ ~(a = b /\ Len(ws[b]) = 3)

\* An amount at the start of w followed, within the word, by nothing, by "CA"
\* or by "$"
IsMoneyWord(w) ==
    /\ w # <<>> /\ AmountEnd(w, 1) # 0
    /\ SubSeq(w, AmountEnd(w, 1) + 1, Len(w)) \in {<<>>, <<"C", "A">>, <<"$">>}

\* The place of the word after \s*(?:CA|\$)?\s+ when the amount is ws[k]
AfterMoney(ws, k) ==
    IF /\ AmountEnd(ws[k], 1) = Len(ws[k])
       /\ k + 1 <= Len(ws) /\ ws[k + 1] \in {<<"C", "A">>, <<"$">>}
    THEN k + 2 ELSE k + 1

\* margin at the word ws[m], after rev at ws[k] and cost at ws[c]
MoneyThird(ws, k, c, m) ==
    IF m > Len(ws) \/ ws[m] = <<>> \/ AmountEnd(ws[m], 1) = 0 THEN None
    ELSE Some(<<k, c, m>>)

\* cost at the word ws[c], after rev at ws[k]
MoneySecond(ws, k, c) ==
    IF c > Len(ws) \/ ~IsMoneyWord(ws[c]) THEN None
    ELSE MoneyThird(ws, k, c, AfterMoney(ws, c))

\* rev, cost and margin matched from the word ws[k] on: the places of the
\* three words, or None
MoneyAt(ws, k) ==
    IF k > Len(ws) \/ ~IsMoneyWord(ws[k]) THEN None
    ELSE MoneySecond(ws, k, AfterMoney(ws, k))

\* The ways LINE_RE matches ws with its order group in the word ws[i]: the
\* last words of customer (c), origin (o) and dest (d)
LineWays(ws, i) ==
    IF ~(OrderAtEnd(ws[i]) /\ i + 1 <= Len(ws) /\ IsDateWord(ws[i + 1])) THEN {}
    ELSE { x \in [c : (i + 2)..Len(ws), o : (i + 3)..Len(ws), d : (i + 4)..Len(ws)] :
             /\ IsCityGroup(ws, x.c + 1, x.o)
             /\ IsCityGroup(ws, x.o + 1, x.d)
             /\ MoneyAt(ws, x.d + 1) # None }

\* The way the regex engine finds first: the shortest customer (.*?), then
\* the longest origin and the longest dest (greedy)
FirstWay(W) ==
    CHOOSE v \in W :
       \A u \in W :
          \/ v.c < u.c
          \/ v.c = u.c /\ v.o > u.o
          \/ v.c = u.c /\ v.o = u.o /\ v.d >= u.d

\* The amount at the start of the word w, in hundredths
MoneyOf(w) == clean_money(SubSeq(w, 1, AmountEnd(w, 1)))

\* The record try_flush appends for the match with its order in ws[i], its
\* groups ending as in x and its amounts in the words m
LineRecord(ws, i, x, m) ==
    [order_no |-> SubSeq(ws[i], Len(ws[i]) - 4, Len(ws[i])),
     req_pu_date |-> normalize_date(ws[i + 1]),
     customer |-> SubSeq(ws, i + 2, x.c),
     origin |-> SubSeq(ws, x.c + 1, x.o),
     destination |-> SubSeq(ws, x.o + 1, x.d),
     revenue |-> MoneyOf(ws[m[1]]),
     cost |-> MoneyOf(ws[m[2]]),
     margin |-> MoneyOf(ws[m[3]])]

LineWay(ws, i, x) == LineRecord(ws, i, x, MoneyAt(ws, x.d + 1)[1])

\* The words of ws where a match of LINE_RE can begin
LineStarts(ws) == { i \in 1..Len(ws) : LineWays(ws, i) # {} }

LineAt(ws, i) == LineWay(ws, i, FirstWay(LineWays(ws, i)))

\* LINE_RE.search(joined) as the record try_flush appends, or None: the
\* leftmost match
LINE_RE(ws) ==
    IF LineStarts(ws) = {} THEN None
    ELSE Some(LineAt(ws, CHOOSE i \in LineStarts(ws) :
                            \A y \in LineStarts(ws) : i <= y))

\* The loop of parse_lines_to_rows from line k on, and the final flush; m is
\* what try_flush finds in the buffer with line k appended
RECURSIVE ParseFrom(_, _, _, _)
RECURSIVE ParseLine(_, _, _, _, _)
ParseLine(lines, k, buf, out, m) ==
    IF m # None THEN ParseFrom(lines, k + 1, <<>>, Append(out, m[1]))
    ELSE IF Len(buf) > 3 THEN ParseFrom(lines, k + 1, Tail(buf), out)
    ELSE ParseFrom(lines, k + 1, buf, out)

FinalFlush(out, m) == IF m # None THEN Append(out, m[1]) ELSE out

ParseFrom(lines, k, buf, out) ==
    IF k > Len(lines) THEN FinalFlush(out, LINE_RE(Flatten(buf)))
    ELSE IF lines[k] = <<>> THEN ParseFrom(lines, k + 1, buf, out)
    ELSE ParseLine(lines, k, Append(buf, lines[k]), out,
                   LINE_RE(Flatten(Append(buf, lines[k]))))

\* parse_lines_to_rows(lines)
parse_lines_to_rows(lines) == ParseFrom(lines, 1, <<>>, <<>>)

\* The loop of extract_page_records over the table rows from row k on:
\* results holds what map_row_from_table did with each row so far
RECURSIVE MapRows(_, _, _)
MapRows(table_rows, k, results) ==
    IF k > Len(table_rows) THEN results
    ELSE IF map_row_from_table(table_rows[k]).raised
    THEN Append(results, map_row_from_table(table_rows[k]))
    ELSE MapRows(table_rows, k + 1,
                 Append(results, map_row_from_table(table_rows[k])))

\* The records of the rows that gave one
Mapped(results) ==
    LET Got(r) == r.rec # None
    IN  [i \in 1..Len(SelectSeq(results, Got)) |-> SelectSeq(results, Got)[i].rec[1]]

\* extract_page_records once the table rows are mapped
PageRecords(pg, results) ==
    IF results # <<>> /\ results[Len(results)].raised
    THEN [raised |-> TRUE, recs |-> <<>>, rows |-> results]
    ELSE IF Mapped(results) # <<>>
    THEN [raised |-> FALSE, recs |-> Mapped(results), rows |-> results]
    ELSE [raised |-> FALSE, recs |-> parse_lines_to_rows(pg.lines),
          rows |-> results]

\* extract_page_records(page): pg.rows is what tables_to_rows returns and
\* pg.lines what text_blocks_after_header returns
extract_page_records(pg) ==
    PageRecords(pg, MapRows(pg.rows, 1, <<>>))

\* The table rows of the model
TableRows ==
    { <<<<wOrder1>>, <<wDate>>, <<wCust>>, <<wCityA>>, <<wCityB>>, <<wAmt1>>, <<wAmt2>>, <<wAmt3>>>>,
      <<<<wOrder2>>, <<wDate>>, <<wCust>>, <<wCityA>>, <<wCityB>>, <<wAmt1>>, <<wAmt2>>, <<wAmt3>>>>,
      <<<<wOrder1>>, <<wDate>>, <<wCust>>, <<wCityA>>, <<wCityB>>, <<wAmt1, wAmt2, wAmt3>>>>,
      <<<<wOrder1>>, <<wDate>>, <<wCust>>, <<wCityA>>, <<wCityB>>, <<wAmt1>>, <<wAmt2>>, <<wAmt3>>, <<wCA>>>>,
      <<<<wOrder1>>, <<wDate>>, <<wCust>>, <<wCityA>>, <<wCityB>>, <<wAmt1>>, <<wAmt2>>>>,
      <<<<wOrder1>>, <<wDate>>, <<wCust>>, <<wCityA>>, <<wCityB>>, <<wAmt1>>>>,
      <<<<wOrder1>>, <<wCust>>, <<wCityA>>, <<wCityB>>, <<wAmt1>>, <<wAmt2>>, <<wAmt3>>>>,
      <<<<wDate>>>>,
      <<<<wReport>>>> }

\* The lines of page text of the model
TextLines ==
    { <<wOrder2, wDate, wCust, wCityA, wCityB, wAmt1, wAmt2, wAmt3>>,
      <<wOrder1, wDate, wCust>>,
      <<wCityA, wCityB, wAmt1, wAmt2, wAmt3>>,
      <<wReport>> }

\* The pages: up to MaxTableRows table rows and up to MaxLines lines.  The
\* text of a page is read only when no table row gave a record, so it is left
\* empty otherwise.
Pages ==
    { pg \in [rows  : UNION { [1..n -> TableRows] : n \in 0..MaxTableRows },
              lines : UNION { [1..n -> TextLines] : n \in 0..MaxLines }] :
        pg.lines # <<>> =>
           \A k \in 1..Len(pg.rows) :
              /\ ~map_row_from_table(pg.rows[k]).raised
              /\ map_row_from_table(pg.rows[k]).rec = None }

\* extract_page_records on every page of the model
PageResults == [pg \in Pages |-> extract_page_records(pg)]

\* df[df["order_no"].astype(str).str.fullmatch(r"\d{5}", na=False)]
FiveDigitOrders(df) ==
    LET Ok(r) == Len(r.order_no) = 5 /\ \A x \in 1..5 : IsDigit(r.order_no[x])
    IN  SelectSeq(df, Ok)

NoPage == [rows |-> <<>>, lines |-> <<>>]
NoPageResult == [raised |-> FALSE, recs |-> <<>>, rows |-> <<>>]

ExtractInit ==
    /\ exPc = "start"
    /\ nPdfs = 0
    /\ pdfNo = 0
    /\ nPages = 0
    /\ pageNo = 0
    /\ all_rows = <<>>
    /\ page = NoPage
    /\ pageResult = NoPageResult
    /\ exWritten = {}
    /\ exFailed = {}
    /\ exOut = None

ExtractIdle ==
    /\ exPc = "idle"
    /\ nPdfs = 0
    /\ pdfNo = 0
    /\ nPages = 0
    /\ pageNo = 0
    /\ all_rows = <<>>
    /\ page = NoPage
    /\ pageResult = NoPageResult
    /\ exWritten = {}
    /\ exFailed = {}
    /\ exOut = None

\* main(): the sorted PDFs; exit 0 when there is none
ExtractMain ==
    /\ exPc = "start"
    /\ \E n \in 0..MaxPdfs :
         /\ nPdfs' = n
         /\ IF n = 0 THEN exPc' = "exit" /\ pdfNo' = pdfNo
            ELSE exPc' = "pdf" /\ pdfNo' = 1
    /\ UNCHANGED <<nPages, pageNo, all_rows, page, pageResult, exWritten,
                   exFailed, exOut>>
    /\ ExtractOnly

\* main() goes on with the next PDF, or ends
NextPdf ==
    IF pdfNo = nPdfs THEN exPc' = "exit" /\ pdfNo' = pdfNo
    ELSE exPc' = "pdf" /\ pdfNo' = pdfNo + 1

\* process_pdf opens the PDF; a PDF that cannot be opened is reported by
\* main() and left out
OpenPdf ==
    /\ exPc = "pdf"
    /\ \E opens \in BOOLEAN, n \in 0..MaxPages :
         IF opens
         THEN /\ exPc' = "pages"
              /\ nPages' = n
              /\ pageNo' = 0
              /\ all_rows' = <<>>
              /\ UNCHANGED pdfNo
         ELSE /\ NextPdf
              /\ UNCHANGED <<nPages, pageNo, all_rows>>
    /\ page' = NoPage
    /\ pageResult' = NoPageResult
    /\ UNCHANGED <<nPdfs, exWritten, exFailed, exOut>>
    /\ ExtractOnly

\* One page of process_pdf's loop.  An exception of extract_page_records
\* leaves process_pdf; main() catches it, reports the PDF and goes on
\* without writing a file for it.
PageStep(pg, res) ==
    /\ page' = pg
    /\ pageResult' = res
    /\ IF res.raised
       THEN /\ exFailed' = exFailed \cup {pdfNo}
            /\ NextPdf
            /\ UNCHANGED <<pageNo, all_rows>>
       ELSE /\ all_rows' = all_rows \o res.recs
            /\ pageNo' = pageNo + 1
            /\ UNCHANGED <<exPc, pdfNo, exFailed>>

ExtractPage ==
    /\ exPc = "pages"
    /\ pageNo < nPages
    /\ \E pg \in Pages : PageStep(pg, PageResults[pg])
    /\ UNCHANGED <<nPdfs, nPages, exWritten, exOut>>
    /\ ExtractOnly

\* process_pdf after its loop and main() after process_pdf: the frame is
\* filtered and written to orders<year>.tsv
WritePdf ==
    /\ exPc = "pages"
    /\ pageNo = nPages
    /\ exOut' = Some(FiveDigitOrders(all_rows))
    /\ exWritten' = exWritten \cup {pdfNo}
    /\ NextPdf
    /\ UNCHANGED <<nPdfs, nPages, pageNo, all_rows, page, pageResult, exFailed>>
    /\ ExtractOnly

ExtractNext ==
    \/ ExtractMain
    \/ OpenPdf
    \/ ExtractPage
    \/ WritePdf

\* C13: a PDF that could be opened is never given up: no table row, text
\* block or page of it makes main() report the PDF as failed and leave it
\* without an output file.
C13_OpenedPdfIsWritten == exFailed = {}

\* Every amount of a table row, from left to right
AllAmounts(row) == Flatten([i \in 1..Len(row) |-> FindAmounts(row[i])])

\* revenue, cost and margin as the amounts amts, read in that order, give
\* them: a missing amount is zero, a missing margin may be revenue - cost
InOrder(rec, amts) ==
    /\ Len(amts) = 3 =>
          /\ rec.revenue = clean_money(amts[1])
          /\ rec.cost = clean_money(amts[2])
          /\ rec.margin = clean_money(amts[3])
    /\ Len(amts) = 2 =>
          /\ rec.revenue = clean_money(amts[1])
          /\ rec.cost = clean_money(amts[2])
          /\ rec.margin \in {0, clean_money(amts[1]) - clean_money(amts[2])}
    /\ Len(amts) = 1 =>
          /\ rec.revenue = clean_money(amts[1])
          /\ rec.cost = 0
          /\ rec.margin = 0
    /\ Len(amts) = 0 => rec.revenue = 0 /\ rec.cost = 0 /\ rec.margin = 0

\* C18: the record of a table row that map_row_from_table accepted carries
\* the row's amounts, read from left to right, as revenue, cost and margin,
\* wherever they sit in the cells; with one or two amounts the missing fields
\* are zero and no amount is given to two fields.
C18_AmountsInOrder ==
    \A k \in 1..Len(pageResult.rows) :
       (pageResult.rows[k].rec # None /\ Len(AllAmounts(page.rows[k])) <= 3)
          => InOrder(pageResult.rows[k].rec[1], AllAmounts(page.rows[k]))

\* A candidate data row without its date: an order number, two city cells
\* and an amount
IsCandidateRow(row) ==
    /\ FirstOrder(Flatten(row)) # None
    /\ FirstDate(Flatten(row)) = None
    /\ first_city_idx(NonEmptyCells(row), 0) >= 0
    /\ first_city_idx(NonEmptyCells(row),
                      first_city_idx(NonEmptyCells(row), 0) + 1) >= 0
    /\ AllAmounts(row) # <<>>

\* A row with a date-shaped token and no order number
IsDateRow(row) ==
    FirstDate(Flatten(row)) # None /\ FirstOrder(Flatten(row)) = None

\* C19: a candidate row immediately followed by a date row gives exactly one
\* record, which carries the candidate's order number and that date.
C19_DateRowMerged ==
    \A k \in 1..(Len(page.rows) - 1) :
       (IsCandidateRow(page.rows[k]) /\ IsDateRow(page.rows[k + 1])
        /\ Len(pageResult.rows) = Len(page.rows))
          => \E i \in 1..Len(pageResult.recs) :
                /\ pageResult.recs[i].order_no = FirstOrder(Flatten(page.rows[k]))[1]
                /\ pageResult.recs[i].req_pu_date
                     = normalize_date(FirstDate(Flatten(page.rows[k + 1]))[1])
                /\ \A j \in 1..Len(pageResult.recs) :
                      pageResult.recs[j].order_no = pageResult.recs[i].order_no
                         => j = i

\* The lines that begin with a 5-digit order number
BlockStarts(lines) ==
    { k \in 1..Len(lines) :
        /\ lines[k] # <<>>
        /\ Len(lines[k][1]) = 5
        /\ \A x \in 1..5 : IsDigit(lines[k][1][x]) }

\* The block that starts at line k: the lines up to the next start
BlockOf(lines, k) ==
    SubSeq(lines, k,
           IF \E j \in BlockStarts(lines) : j > k
           THEN (CHOOSE j \in BlockStarts(lines) :
                   j > k /\ \A y \in BlockStarts(lines) : y > k => j <= y) - 1
           ELSE Len(lines))

\* C17: every record of the plain-text strategy is the match of one block,
\* the lines from an order-leading line up to the next one.
C17_RecordFromOneBlock ==
    (Len(pageResult.rows) = Len(page.rows) /\ Mapped(pageResult.rows) = <<>>)
       => \A i \in 1..Len(pageResult.recs) :
             \E k \in BlockStarts(page.lines) :
                LINE_RE(Flatten(BlockOf(page.lines, k))) = Some(pageResult.recs[i])

----------------------------------------------------------------------------
(* merge_enriched.py *)

NaT == <<>>

\* The names *_enriched.tsv files may bear, as sorted() orders them
FileNames ==
    << "orders2022_enriched.tsv", "orders2023_enriched.tsv",
       "orders_enriched.tsv" >>

\* YEAR_RE.search(file.name): the first four digits of the name, or None
YearInName(name) ==
    CASE name = "orders2022_enriched.tsv" -> Some(2022)
      [] name = "orders2023_enriched.tsv" -> Some(2023)
      [] name = "orders2023_norm_enriched.tsv" -> Some(2023)
      [] OTHER                            -> None

\* The values of the order_no and req_pu_date columns in the model
OrderNos == { "21401", "21402" }
DateStrs == { "2023-12-30", "2024-01-04", "n/a" }

\* pd.to_datetime(s, errors="coerce"): (year, month, day), or NaT
to_datetime(s) ==
    CASE s = "2023-12-30" -> <<2023, 12, 30>>
      [] s = "2024-01-04" -> <<2024, 1, 4>>
      [] OTHER            -> NaT

\* The place of an order_no in the order of strings
StrRank(o) == IF o = "21401" THEN 1 ELSE 2

\* The contents a file may have: up to MaxMergeRows rows
FileRows ==
    UNION { [1..n -> [order_no : OrderNos, req_pu_date : DateStrs]] :
              n \in 0..MaxMergeRows }

MergeKey(r) == <<r.order_no, r.req_pu_date>>

\* df.drop_duplicates(subset=..., keep="last")
DropDuplicatesLast(df, subset) ==
    RowsAt(df, { i \in 1..Len(df) :
                   \A k \in (i + 1)..Len(df) :
                      \E c \in subset : df[k][c] # df[i][c] }, 1)

\* df[c] of df[EXPECTED_COLS] for a numeric column c, after pd.to_numeric: the
\* number the file holds under that very header, NaN (None) when the file has
\* no such column or the cell is empty
ExpectedCol(row, c) == IF c \in DOMAIN row THEN row[c] ELSE None

\* load_one without the fallback to the year of the file name
load_one_date_only(name, content, f) ==
    LET dated == [i \in 1..Len(content) |->
                    LET dt == to_datetime(content[i].req_pu_date)
                    IN  [src |-> <<f, i>>, order_no |-> content[i].order_no,
                         req_pu_date |-> dt,
                         distance_km |-> ExpectedCol(content[i], "distance_km"),
                         rate_per_km |-> ExpectedCol(content[i], "rate_per_km"),
                         cost_per_km |-> ExpectedCol(content[i], "cost_per_km"),
                         margin_per_km |-> ExpectedCol(content[i], "margin_per_km"),
                         year |-> IF dt = NaT THEN None ELSE Some(dt[1])]]
    IN  DropDuplicatesLast(dated, {"order_no", "req_pu_date"})

\* load_one(file) for the f-th file; src tells the rows of the input apart
load_one(name, content, f) ==
    LET dated == [i \in 1..Len(content) |->
                    LET dt == to_datetime(content[i].req_pu_date)
                    IN  [src |-> <<f, i>>, order_no |-> content[i].order_no,
                         req_pu_date |-> dt,
                         distance_km |-> ExpectedCol(content[i], "distance_km"),
                         rate_per_km |-> ExpectedCol(content[i], "rate_per_km"),
                         cost_per_km |-> ExpectedCol(content[i], "cost_per_km"),
                         margin_per_km |-> ExpectedCol(content[i], "margin_per_km"),
                         year |-> IF dt = NaT THEN None ELSE Some(dt[1])]]
        allNa == \A i \in 1..Len(dated) : dated[i].year = None
        m     == YearInName(name)
        df    == IF allNa /\ m # None
                 THEN [i \in 1..Len(dated) |-> [dated[i] EXCEPT !.year = m]]
                 ELSE dated
    IN  DropDuplicatesLast(df, {"order_no", "req_pu_date"})

\* pd.concat(parts, ignore_index=True)
RECURSIVE Concat(_)
Concat(ps) == IF ps = <<>> THEN <<>> ELSE Head(ps) \o Concat(Tail(ps))

\* a comes before b in the order of (req_pu_date, order_no), NaT last
RowLess(a, b) ==
    LET day(dt) == dt[1] * 10000 + dt[2] * 100 + dt[3]
        dateLess == /\ a.req_pu_date # NaT
                    /\ b.req_pu_date = NaT \/ day(a.req_pu_date) < day(b.req_pu_date)
    IN  \/ dateLess
        \/ a.req_pu_date = b.req_pu_date /\ StrRank(a.order_no) < StrRank(b.order_no)

\* r put into the sorted sequence sq, after the rows that are not greater
InsertRow(sq, r) ==
    LET k == Cardinality({ i \in 1..Len(sq) : ~RowLess(r, sq[i]) })
    IN  SubSeq(sq, 1, k) \o <<r>> \o SubSeq(sq, k + 1, Len(sq))

\* df.sort_values(["req_pu_date","order_no"], kind="mergesort",
\* na_position="last"): a stable sort
RECURSIVE SortPrefix(_, _)
SortPrefix(df, n) ==
    IF n = 0 THEN <<>> ELSE InsertRow(SortPrefix(df, n - 1), df[n])

sort_values(df) == SortPrefix(df, Len(df))

\* The rows all_df.groupby(all_df["year"].dropna().astype(int)) puts in the
\* group of a year: a row without year has no group key and is in no group
YearGroup(all_df, year) ==
    LET InYear(r) == r.year = Some(year)
    IN  SelectSeq(all_df, InYear)

YearsOf(all_df) ==
    { all_df[i].year[1] : i \in { j \in 1..Len(all_df) : all_df[j].year # None } }

\* A check that never finds the years missing
NoYearNever(all_df) == FALSE

\* all_df["year"].isna().all()
NoYear(all_df) == \A i \in 1..Len(all_df) : all_df[i].year = None

MergeInit ==
    /\ mergePc = "start"
    /\ mergeN = 0
    /\ mergeI = 0
    /\ nameIx = 0
    /\ parts = <<>>
    /\ master = None
    /\ yearTables = <<>>
    /\ exitCode = None

MergeIdle ==
    /\ mergePc = "idle"
    /\ mergeN = 0
    /\ mergeI = 0
    /\ nameIx = 0
    /\ parts = <<>>
    /\ master = None
    /\ yearTables = <<>>
    /\ exitCode = None

\* main(): the sorted *_enriched.tsv files; exit 1 when there is none
MergeStart ==
    /\ mergePc = "start"
    /\ \E n \in 0..MaxMergeFiles :
         /\ mergeN' = n
         /\ IF n = 0
            THEN mergePc' = "exit" /\ exitCode' = Some(1)
            ELSE mergePc' = "load" /\ exitCode' = exitCode
    /\ UNCHANGED <<mergeI, nameIx, parts, master, yearTables>>
    /\ MergeOnly

\* One iteration of main()'s loading loop: the frame of a file that can be
\* read is appended, a file that cannot be read is reported and left out
MergeLoad ==
    /\ mergePc = "load"
    /\ mergeI < mergeN
    /\ \E ix \in (nameIx + 1)..Len(FileNames), content \in FileRows,
          readable \in BOOLEAN :
         /\ nameIx' = ix
         /\ parts' = IF readable
                     THEN Append(parts, load_one(FileNames[ix], content, mergeI + 1))
                     ELSE parts
    /\ mergeI' = mergeI + 1
    /\ UNCHANGED <<mergePc, mergeN, master, yearTables, exitCode>>
    /\ MergeOnly

\* main() after the loop: exit 1 without output when no frame or no year is
\* there; else the master table and one table per year are written
MergeWrite ==
    /\ mergePc = "load"
    /\ mergeI = mergeN
    /\ LET all_df == Concat(parts)
           sorted == sort_values(all_df)
       IN  IF parts = <<>> \/ NoYear(all_df)
           THEN /\ exitCode' = Some(1)
                /\ UNCHANGED <<master, yearTables>>
           ELSE /\ master' = Some(sorted)
                /\ yearTables' = [y \in YearsOf(sorted) |->
                                    sort_values(YearGroup(sorted, y))]
                /\ exitCode' = Some(0)
    /\ mergePc' = "exit"
    /\ UNCHANGED <<mergeN, mergeI, nameIx, parts>>
    /\ MergeOnly

MergeNext ==
    \/ MergeStart
    \/ MergeLoad
    \/ MergeWrite

----------------------------------------------------------------------------
(* Properties of the merger *)

\* C9: the master table holds no two rows with the same (order_no,
\* req_pu_date), wherever the duplicates are in the input; of each group of
\* duplicates the last occurrence is the one kept.
C9_MasterHasNoDuplicateKeys ==
    master # None =>
      LET m == master[1]
          all_df == Concat(parts)
      IN  /\ \A i, j \in 1..Len(m) : MergeKey(m[i]) = MergeKey(m[j]) => i = j
          /\ \A i \in 1..Len(m) :
                \A k \in 1..Len(all_df) :
                   MergeKey(all_df[k]) = MergeKey(m[i])
                      => (all_df[k].src[1] < m[i].src[1]
                          \/ (all_df[k].src[1] = m[i].src[1]
                              /\ all_df[k].src[2] <= m[i].src[2]))

\* C10: the per-year tables partition the master table: every row of the
\* master table is in exactly one per-year table.
C10_YearTablesPartitionMaster ==
    master # None =>
      \A i \in 1..Len(master[1]) :
         Cardinality({ y \in DOMAIN yearTables :
                         \E k \in 1..Len(yearTables[y]) :
                            yearTables[y][k].src = master[1][i].src }) = 1

\* A step of the loading loop that appended the frame of a file
LoadedStep == mergePc = "load" /\ Len(parts') = Len(parts) + 1

\* C11: when the name of a file holds a four-digit year and no row of the file
\* has a parseable date, every row load_one returns is tagged with the year of
\* the name; and a row of the master table that has a year is written to the
\* table of that year.
C11_NameYearFallback ==
    /\ [][ LoadedStep =>
             LET p == parts'[Len(parts')]
                 name == FileNames[nameIx']
             IN  (name \in {"orders2022_enriched.tsv", "orders2023_enriched.tsv"}
                  /\ \A i \in 1..Len(p) : p[i].req_pu_date = NaT)
                    => \A i \in 1..Len(p) :
                          p[i].year = Some(IF name = "orders2022_enriched.tsv"
                                           THEN 2022 ELSE 2023) ]_vars
    /\ [](master # None =>
            \A i \in 1..Len(master[1]) :
               master[1][i].year # None =>
                  /\ master[1][i].year[1] \in DOMAIN yearTables
                  /\ \E k \in 1..Len(yearTables[master[1][i].year[1]]) :
                        yearTables[master[1][i].year[1]][k] = master[1][i])

C11_Witness ==
    /\ master # None
    /\ 2022 \in DOMAIN yearTables
    /\ \E k \in 1..Len(yearTables[2022]) :
          /\ yearTables[2022][k].req_pu_date = NaT
          /\ yearTables[2022][k].year = Some(2022)

\* C12: when no row of any input has a year, merge_enriched exits with a
\* non-zero status and has written neither the master table nor a per-year
\* table.
C12_NoYearNoOutput ==
    (mergePc = "exit"
     /\ \A f \in 1..Len(parts) : \A i \in 1..Len(parts[f]) : parts[f][i].year = None)
       => /\ exitCode # None /\ exitCode[1] # 0
          /\ master = None
          /\ yearTables = <<>>

C12_Witness ==
    /\ mergePc = "exit"
    /\ parts # <<>>
    /\ \E f \in 1..Len(parts) : parts[f] # <<>>
    /\ \A f \in 1..Len(parts) : \A i \in 1..Len(parts[f]) : parts[f][i].year = None
    /\ exitCode = Some(1)

----------------------------------------------------------------------------
(* normalize_tsv.py, enrich_with_distance.py and merge_enriched.py run one
   after the other on data/processed/pdf_csv, which holds one raw source
   orders2023.tsv *)

\* The names the files of the directory bear, as sorted() orders them
PipeNames ==
    << "orders2023.tsv", "orders2023_enriched.tsv", "orders2023_norm.tsv",
       "orders2023_norm_enriched.tsv" >>

\* What follows "orders2023" in the stem of a name
NameTags(name) ==
    CASE name = "orders2023.tsv"               -> <<>>
      [] name = "orders2023_enriched.tsv"      -> <<"enriched">>
      [] name = "orders2023_norm.tsv"          -> <<"norm">>
      [] name = "orders2023_norm_enriched.tsv" -> <<"norm", "enriched">>

\* name.endswith("_<tag>.tsv")
EndsWithTag(name, tag) ==
    NameTags(name) # <<>> /\ NameTags(name)[Len(NameTags(name))] = tag

\* path.with_name(path.stem + "_<tag>.tsv")
WithTag(name, tag) ==
    CHOOSE n \in { PipeNames[i] : i \in 1..Len(PipeNames) } :
       NameTags(n) = Append(NameTags(name), tag)

\* sorted(...) of the names of the directory that satisfy a glob
SortedNames(names) ==
    LET Has(n) == n \in names IN SelectSeq(PipeNames, Has)

\* IN_DIR.glob("orders????.tsv")
GlobOrdersYear(dir) == { n \in DOMAIN dir : NameTags(n) = <<>> }

\* RAW_DIR.glob("orders*.tsv") without the names that end in _enriched.tsv
GlobRaw(dir) == { n \in DOMAIN dir : ~EndsWithTag(n, "enriched") }

\* ENRICHED_DIR.glob("*_enriched.tsv")
GlobEnriched(dir) == { n \in DOMAIN dir : EndsWithTag(n, "enriched") }

\* The columns of a file: the target schema, the four Tabula columns under
\* their usual headers, four columns under other headers, or anything else
Layouts == { "schema", "tabula", "four", "other" }

\* The shipments of the raw source: rows with distinct (order_no, req_pu_date)
Shipments ==
    { c \in FileRows :
        \A i, j \in 1..Len(c) : MergeKey(c[i]) = MergeKey(c[j]) => i = j }

\* dir with the file name written
WriteFile(dir, name, content) ==
    [n \in DOMAIN dir \cup {name} |-> IF n = name THEN content ELSE dir[n]]

\* normalize_one_file(path): the directory afterwards
normalize_one_file(dir, name) ==
    IF EndsWithTag(name, "norm") \/ EndsWithTag(name, "enriched") THEN dir
    ELSE IF dir[name].cols \in {"tabula", "four"}
    THEN IF dir[name].rows = <<>> THEN dir
         ELSE WriteFile(dir, WithTag(name, "norm"),
                        [cols |-> "schema", rows |-> dir[name].rows])
    ELSE IF dir[name].cols = "schema"
    THEN WriteFile(dir, WithTag(name, "norm"),
                   [cols |-> "schema", rows |-> dir[name].rows])
    ELSE dir

\* normalize_tsv's main(): normalize_one_file on every file of the list
RECURSIVE NormalizeAll(_, _)
NormalizeAll(dir, files) ==
    IF files = <<>> THEN dir
    ELSE NormalizeAll(normalize_one_file(dir, Head(files)), Tail(files))

\* enrich_file raises ValueError for missing columns (lines 279-281):
\* try_normalize_tabula4 rewrites only the Tabula headers, and only when a row
\* has an order number and a date
MissingColumns(file) ==
    \/ file.cols \in {"four", "other"}
    \/ file.cols = "tabula" /\ file.rows = <<>>

\* The revenue and cost columns of the shipments, in hundredths
RevenueOf(order_no) == IF order_no = "21401" THEN 30000 ELSE 15000
CostOf(order_no) == IF order_no = "21401" THEN 20000 ELSE 18000

\* The distances enrich_file finds for a row, in tenths of km; None is NaN
PipeKms == { None, Some(0), Some(2500) }

\* safe_ratio(a, b), a in hundredths and b in tenths of km: a/b rounded to
\* four decimals, in ten-thousandths; NaN (None) unless b > 0
safe_ratio(a, b) ==
    IF b = None \/ b[1] <= 0 THEN None
    ELSE IF a >= 0 THEN Some((2000 * a + b[1]) \div (2 * b[1]))
    ELSE Some(0 - ((2000 * (0 - a) + b[1]) \div (2 * b[1])))

\* A row of the frame enrich_file writes (lines 301-305), its distance km
EnrichedRow(r, km) ==
    [order_no |-> r.order_no, req_pu_date |-> r.req_pu_date,
     distance_km |-> km,
     revenue_per_km |-> safe_ratio(RevenueOf(r.order_no), km),
     cost_per_km |-> safe_ratio(CostOf(r.order_no), km),
     margin_per_km |-> safe_ratio(RevenueOf(r.order_no) - CostOf(r.order_no), km)]

PipeInit ==
    /\ pipePc = "normalize"
    /\ \E layout \in Layouts, ships \in Shipments :
         pipeDir = [n \in {"orders2023.tsv"} |-> [cols |-> layout, rows |-> ships]]
    /\ pipeFiles = <<>>
    /\ pipeParts = <<>>
    /\ pipeMaster = None
    /\ pipeExit = None

PipeIdle ==
    /\ pipePc = "idle"
    /\ pipeDir = <<>>
    /\ pipeFiles = <<>>
    /\ pipeParts = <<>>
    /\ pipeMaster = None
    /\ pipeExit = None

\* normalize_tsv.py
PipeNormalize ==
    /\ pipePc = "normalize"
    /\ pipeDir' = NormalizeAll(pipeDir, SortedNames(GlobOrdersYear(pipeDir)))
    /\ pipePc' = "enrich"
    /\ UNCHANGED <<pipeFiles, pipeParts, pipeMaster, pipeExit>>
    /\ PipeOnly

\* enrich_with_distance's main() lists its files
PipeEnrichStart ==
    /\ pipePc = "enrich"
    /\ pipeFiles' = SortedNames(GlobRaw(pipeDir))
    /\ pipePc' = "enrich_file"
    /\ UNCHANGED <<pipeDir, pipeParts, pipeMaster, pipeExit>>
    /\ PipeOnly

\* enrich_file on the next file of the list: the enriched file is written, or
\* an exception (missing columns, or a failing request) ends the script
PipeEnrichFile ==
    /\ pipePc = "enrich_file"
    /\ pipeFiles # <<>>
    /\ \E fails \in BOOLEAN,
          kms \in [1..Len(pipeDir[Head(pipeFiles)].rows) -> PipeKms] :
         IF fails \/ MissingColumns(pipeDir[Head(pipeFiles)])
         THEN /\ pipePc' = "merge"
              /\ pipeFiles' = <<>>
              /\ UNCHANGED pipeDir
         ELSE /\ pipeDir' = WriteFile(pipeDir, WithTag(Head(pipeFiles), "enriched"),
                                      [cols |-> "schema",
                                       rows |-> [i \in 1..Len(kms) |->
                                                   EnrichedRow(pipeDir[Head(pipeFiles)].rows[i],
                                                               kms[i])]])
              /\ pipeFiles' = Tail(pipeFiles)
              /\ UNCHANGED pipePc
    /\ UNCHANGED <<pipeParts, pipeMaster, pipeExit>>
    /\ PipeOnly

\* enrich_with_distance's main() returns
PipeEnrichEnd ==
    /\ pipePc = "enrich_file"
    /\ pipeFiles = <<>>
    /\ pipePc' = "merge"
    /\ UNCHANGED <<pipeDir, pipeFiles, pipeParts, pipeMaster, pipeExit>>
    /\ PipeOnly

\* merge_enriched's main() lists its files; exit 1 when there is none
PipeMergeStart ==
    /\ pipePc = "merge"
    /\ pipeFiles' = SortedNames(GlobEnriched(pipeDir))
    /\ IF GlobEnriched(pipeDir) = {}
       THEN pipePc' = "done" /\ pipeExit' = Some(1)
       ELSE pipePc' = "merge_load" /\ pipeExit' = pipeExit
    /\ UNCHANGED <<pipeDir, pipeParts, pipeMaster>>
    /\ PipeOnly

\* One iteration of merge_enriched's loading loop
PipeMergeLoad ==
    /\ pipePc = "merge_load"
    /\ pipeFiles # <<>>
    /\ pipeParts' = Append(pipeParts,
                           load_one(Head(pipeFiles), pipeDir[Head(pipeFiles)].rows,
                                    Len(pipeParts) + 1))
    /\ pipeFiles' = Tail(pipeFiles)
    /\ UNCHANGED <<pipePc, pipeDir, pipeMaster, pipeExit>>
    /\ PipeOnly

\* merge_enriched's main() after the loop
PipeMergeWrite ==
    /\ pipePc = "merge_load"
    /\ pipeFiles = <<>>
    /\ IF NoYear(Concat(pipeParts))
       THEN pipeExit' = Some(1) /\ UNCHANGED pipeMaster
       ELSE pipeExit' = Some(0)
            /\ pipeMaster' = Some(sort_values(Concat(pipeParts)))
    /\ pipePc' = "done"
    /\ UNCHANGED <<pipeDir, pipeFiles, pipeParts>>
    /\ PipeOnly

PipeNext ==
    \/ PipeNormalize
    \/ PipeEnrichStart
    \/ PipeEnrichFile
    \/ PipeEnrichEnd
    \/ PipeMergeStart
    \/ PipeMergeLoad
    \/ PipeMergeWrite

\* The number of rows of the master table that are the shipment r
CopiesInMaster(r) ==
    Cardinality({ i \in 1..Len(pipeMaster[1]) :
                    /\ pipeMaster[1][i].order_no = r.order_no
                    /\ pipeMaster[1][i].req_pu_date = to_datetime(r.req_pu_date) })

\* C20: after the three stages the master table holds each shipment of the
\* raw source exactly once, and the directory holds at most one
\* *_enriched.tsv file for the one raw source.
C20_EachShipmentOnce ==
    /\ pipeMaster # None =>
          \A i \in 1..Len(pipeDir["orders2023.tsv"].rows) :
             CopiesInMaster(pipeDir["orders2023.tsv"].rows[i]) = 1
    /\ pipePc # "idle" => Cardinality(GlobEnriched(pipeDir)) <= 1

\* The row of the *_enriched.tsv file that a row of the master table was
\* read from
EnrichedSource(m) ==
    pipeDir[SortedNames(GlobEnriched(pipeDir))[m.src[1]]].rows[m.src[2]]

\* C21: every row of the master table carries the distance_km and the
\* revenue, cost and margin per km that enrich_file wrote for it, unchanged;
\* none of them is dropped or left empty by the merge.
C21_DerivedColumnsCarried ==
    pipeMaster # None =>
       \A i \in 1..Len(pipeMaster[1]) :
          /\ pipeMaster[1][i].distance_km
                = EnrichedSource(pipeMaster[1][i]).distance_km
          /\ pipeMaster[1][i].rate_per_km
                = EnrichedSource(pipeMaster[1][i]).revenue_per_km
          /\ pipeMaster[1][i].cost_per_km
                = EnrichedSource(pipeMaster[1][i]).cost_per_km
          /\ pipeMaster[1][i].margin_per_km
                = EnrichedSource(pipeMaster[1][i]).margin_per_km

\* The distance and the cost and margin per km alone
DistanceCostMarginCarried ==
    pipeMaster # None =>
       \A i \in 1..Len(pipeMaster[1]) :
          /\ pipeMaster[1][i].distance_km
                = EnrichedSource(pipeMaster[1][i]).distance_km
          /\ pipeMaster[1][i].cost_per_km
                = EnrichedSource(pipeMaster[1][i]).cost_per_km
          /\ pipeMaster[1][i].margin_per_km
                = EnrichedSource(pipeMaster[1][i]).margin_per_km

----------------------------------------------------------------------------
(* Specifications *)

\* The enrichment batch (enrich_with_distance.py)
Init == EnrichInit /\ NormIdle /\ MergeIdle /\ TextIdle /\ ExtractIdle /\ PipeIdle
Next == EnrichNext
Spec == Init /\ [][Next]_vars

\* The normaliser on one file (normalize_tsv.py)
InitNormalize == NormInit /\ EnrichIdle /\ MergeIdle /\ TextIdle /\ ExtractIdle /\ PipeIdle
SpecNormalize == InitNormalize /\ [][NormNext]_vars

\* The merger (merge_enriched.py)
InitMerge == MergeInit /\ EnrichIdle /\ NormIdle /\ TextIdle /\ ExtractIdle /\ PipeIdle
SpecMerge == InitMerge /\ [][MergeNext]_vars

\* One call of a text function
InitText == TextInit /\ EnrichIdle /\ NormIdle /\ MergeIdle /\ ExtractIdle /\ PipeIdle
SpecText == InitText /\ [][TextNext]_vars

\* The extractor (pdf_to_tsv.py)
InitExtract == ExtractInit /\ EnrichIdle /\ NormIdle /\ MergeIdle /\ TextIdle /\ PipeIdle
SpecExtract == InitExtract /\ [][ExtractNext]_vars

\* The three stages in pipeline order
InitPipeline ==
    PipeInit /\ EnrichIdle /\ NormIdle /\ MergeIdle /\ TextIdle /\ ExtractIdle
SpecPipeline == InitPipeline /\ [][PipeNext]_vars

====
